---- MODULE Spec2Model ----
(***************************************************************************)
(* In-Time: the snapshot state machine of src/src/App.tsx (v4.3.0).        *)
(*                                                                         *)
(* Conventions                                                             *)
(*  - Time is counted in half-days (43 200 000 ms), so the day length      *)
(*    86 400 000 ms of the source is MS_PER_DAY = 2 units and              *)
(*    Math.floor(x / 86400000) is a real floor division.  Date.now() is    *)
(*    the variable now; it is always positive, as the wall clock is.       *)
(*  - multiplier is kept in tenths (fixed point): 1.0 is 10, 3.0 is 30.    *)
(*  - Strings typed by the user are sequences of one-character strings;    *)
(*    the element LongRun stands for a pasted run of 5 MiB of characters.  *)
(*  - generateId() (crypto.randomUUID) yields a value never issued before: *)
(*    the n-th friend id / meeting id is the counter value n.              *)
(*  - null is Null (-1); an absent optional field is the empty sequence.   *)
(*  - An id string is a natural number: generateId yields 1, 2, ...; the   *)
(*    ids found in backup files are 100 and above; 0 is the empty string.  *)
(*  - Every action is a whole event handler followed by React's commit of  *)
(*    the state updates it queued; the handler's closure reads the state   *)
(*    rendered before the event.                                           *)
(***************************************************************************)
EXTENDS Integers, Sequences, FiniteSets, TLC

VARIABLES
    friends,        \* appState.friends
    meetings,       \* appState.meetings
    settings,       \* appState.settings
    toasts,         \* the toasts that carry an action (the Undo closures)
    importData,     \* the import candidate awaiting confirmation, or NoImport
    currentModal,   \* "none", "add-friend" or "import-confirm"
    modalError,     \* AddEditFriendModal's error state while the modal is open
    now,            \* Date.now(), in half-days
    nextFriendId,   \* generateId: the next unused friend id
    nextMeetingId,  \* generateId: the next unused meeting id
    errorToast,     \* the message of the latest toast of type 'error', or ""
    backup,         \* the file last downloaded by handleExport, or NoFile
    render,         \* what the FriendCard being rendered has computed so far
    stored,         \* localStorage's item 'in-time-data', as JSON.parse reads it
    storageFails,   \* localStorage.setItem throws (quota exceeded, storage denied)
    replaced        \* history: the snapshot was replaced by a reset or an import
                    \* while an Undo was on offer; since then no add, log or
                    \* delete has been made and an offer is still on screen

vars == <<friends, meetings, settings, toasts, importData, currentModal,
          modalError, now, nextFriendId, nextMeetingId, errorToast, backup,
          render, stored, storageFails, replaced>>

appVars == <<friends, meetings, settings>>

----------------------------------------------------------------------------
(* Program constants *)

MS_PER_DAY == 2
FRIEND_LIMIT == 10
MULTIPLIER_BASE == 10
MULTIPLIER_CAP == 30
DEFAULT_CADENCE == 14

Null == -1

NO_ERROR == ""
ERR_NAME == "Name is required"
ERR_LIMIT == "Friend limit reached (10 max)"

----------------------------------------------------------------------------
(* Bounds of the model *)

\* Spec
MaxFriendIds == 2      \* friends ever created by handleAddFriend
MaxMeetingIds == 2     \* meetings ever created by a log action
MaxNow == 2            \* the clock stops advancing here
MaxToasts == 2         \* Undo toasts pending at once
\* SpecLog
LogMeetingIds == 3
LogMaxNow == 5
\* SpecStreak
StreakMeetingIds == 21
StreakMaxNow == 5
\* SpecCap
CapFriendIds == 11
CapToasts == 1
\* SpecImport
ImportFriendIds == 1
ImportMeetingIds == 1
ImportToasts == 1
\* SpecHistory
HistoryFriendIds == 1
HistoryMeetingIds == 3
HistoryToasts == 1
HistoryMaxNow == 2
\* SpecEdit
EditFriendIds == 10
EditMeetingIds == 1
EditMaxNow == 2
\* SpecNote
NoteFriendIds == 1
NoteMeetingIds == 3
NoteToasts == 1
NoteMaxNow == 3
\* SpecOnboard
OnboardFriendIds == 1
OnboardMeetingIds == 1
OnboardToasts == 1
\* SpecTimer
TimerFriendIds == 1
TimerMeetingIds == 1
TimerMaxNow == 13      \* six days after startup
\* SpecRender
RenderFriendIds == 1
RenderMeetingIds == 1
RenderMaxNow == 5
\* SpecHealth
HealthMeetings == 21   \* meetings logged in the session before this one
HealthMaxGap == 2      \* half-days between two of its meetings, at most
HealthTicks == 1       \* half-days the clock advances in this session
HealthLogs == 1        \* meetings logged in this session
\* SpecPersist
PersistFriendIds == 1
PersistMeetingIds == 1
PersistToasts == 1
\* SpecBatch
BatchFriendIds == 1
BatchMeetingIds == 4
BatchMaxNow == 4
\* SpecCadence
CadenceFriendIds == 1
\* SpecAppend
AppendFriendIds == 1
AppendMeetingIds == 1
AppendToasts == 1
\* SpecInsights
InsightsFriendIds == 1
InsightsMeetingIds == 1
InsightsMaxNow == 29   \* two weeks after startup
\* SpecExport
ExportFriendIds == 1
ExportMeetingIds == 1
ExportToasts == 1

T0 == 1                \* the clock at startup

LogCadences == {1, DEFAULT_CADENCE}
NameInputs == {<< >>, <<" ">>, <<" ", "A">>}

----------------------------------------------------------------------------
(* Helpers *)

Min(a, b) == IF a < b THEN a ELSE b

Range(s) == {s[i] : i \in 1..Len(s)}

\* Array.prototype.filter / map
Filter(s, Keep(_)) == SelectSeq(s, Keep)

Map(s, F(_)) == [i \in 1..Len(s) |-> F(s[i])]

\* String.prototype.trim on a sequence of characters
RECURSIVE TrimLeft(_)
TrimLeft(s) ==
    IF s # << >> /\ Head(s) = " " THEN TrimLeft(Tail(s)) ELSE s

RECURSIVE TrimRight(_)
TrimRight(s) ==
    IF s # << >> /\ s[Len(s)] = " " THEN TrimRight(SubSeq(s, 1, Len(s) - 1)) ELSE s

Trim(s) == TrimRight(TrimLeft(s))

\* JavaScript truthiness of a number | null
Truthy(x) == x # Null /\ x # 0

----------------------------------------------------------------------------
(* Streak / multiplier rule of the log handlers *)

DaysSinceLastMeeting(friend, t) ==
    IF Truthy(friend.lastMeetingDate)
    THEN (t - friend.lastMeetingDate) \div MS_PER_DAY
    ELSE 0

\* Variant: a late contact resets the streak to 0
NewStreakFromZero(friend, t) ==
    IF DaysSinceLastMeeting(friend, t) <= friend.cadenceDays
       /\ Truthy(friend.lastMeetingDate)
    THEN friend.streakCount + 1
    ELSE 0

\* Variant: the boundary daysSinceLast = cadenceDays breaks the streak
NewStreakExclusive(friend, t) ==
    IF DaysSinceLastMeeting(friend, t) < friend.cadenceDays
       /\ Truthy(friend.lastMeetingDate)
    THEN friend.streakCount + 1
    ELSE 1

NewStreak(friend, t) ==
    IF DaysSinceLastMeeting(friend, t) <= friend.cadenceDays
       /\ Truthy(friend.lastMeetingDate)
    THEN friend.streakCount + 1
    ELSE 1

\* Variant: the cap of Math.min is lost
NewMultiplierUncapped(newStreak) == MULTIPLIER_BASE + newStreak

NewMultiplier(newStreak) == Min(MULTIPLIER_CAP, MULTIPLIER_BASE + newStreak)

----------------------------------------------------------------------------
(* Timers.  elapsed / 86400000 and the percentage are quotients in the     *)
(* source; here they stay exact: a quotient is compared by cross-          *)
(* multiplying, Math.ceil of one is taken on numerator and denominator.    *)

FRESH == "fresh"
APPROACHING == "approaching"
ATTENTION == "attention"

\* Math.ceil(num / den), den > 0
CeilDiv(num, den) == -((-num) \div den)

\* ((elapsed / 86400000) / cadence) * 100 < limit
PercentageBelow(elapsed, cadence, limit) ==
    elapsed * 100 < limit * cadence * MS_PER_DAY

\* Variant: the band limits belong to the lower band
getTimerColorInclusive(lastMeeting, cadence, t) ==
    IF ~Truthy(lastMeeting) THEN FRESH
    ELSE IF PercentageBelow(t - lastMeeting, cadence, 60)
            \/ (t - lastMeeting) * 100 = 60 * cadence * MS_PER_DAY THEN FRESH
    ELSE IF PercentageBelow(t - lastMeeting, cadence, 90)
            \/ (t - lastMeeting) * 100 = 90 * cadence * MS_PER_DAY THEN APPROACHING
    ELSE ATTENTION

\* getTimerColor at Date.now() = t
getTimerColor(lastMeeting, cadence, t) ==
    IF ~Truthy(lastMeeting) THEN FRESH
    ELSE IF PercentageBelow(t - lastMeeting, cadence, 60) THEN FRESH
    ELSE IF PercentageBelow(t - lastMeeting, cadence, 90) THEN APPROACHING
    ELSE ATTENTION

\* getDaysUntilDue at Date.now() = t
getDaysUntilDue(lastMeeting, cadence, t) ==
    IF ~Truthy(lastMeeting) THEN cadence
    ELSE CeilDiv(cadence * MS_PER_DAY - (t - lastMeeting), MS_PER_DAY)

\* getDaysUntilDue of v2.3.0 (src/unnamed/part_000)
getDaysUntilDue_v230(lastMeeting, cadence, t) ==
    IF ~Truthy(lastMeeting) THEN cadence
    ELSE LET days == CeilDiv(cadence * MS_PER_DAY - (t - lastMeeting), MS_PER_DAY)
         IN IF days > 0 THEN days ELSE 0

----------------------------------------------------------------------------
(* Derived values of a render *)

FindFriend(fs, id) == Filter(fs, LAMBDA f : f.id = id)

ActiveFriendCount(fs) == Len(Filter(fs, LAMBDA f : ~f.isArchived))

DueIn(f, t) == getDaysUntilDue(f.lastMeetingDate, f.cadenceDays, t)

\* Array.prototype.sort by getDaysUntilDue(a) - getDaysUntilDue(b): stable
RECURSIVE InsertByDue(_, _, _)
InsertByDue(sorted, f, t) ==
    IF sorted = << >> THEN <<f>>
    ELSE IF DueIn(f, t) < DueIn(Head(sorted), t) THEN <<f>> \o sorted
    ELSE <<Head(sorted)>> \o InsertByDue(Tail(sorted), f, t)

RECURSIVE SortByDue(_, _)
SortByDue(fs, t) ==
    IF fs = << >> THEN << >>
    ELSE InsertByDue(SortByDue(SubSeq(fs, 1, Len(fs) - 1), t), fs[Len(fs)], t)

activeFriends(fs, t) == SortByDue(Filter(fs, LAMBDA f : ~f.isArchived), t)

\* The count the greeting shows
friendsNeedingAttention(fs, t) ==
    Len(Filter(activeFriends(fs, t), LAMBDA f : DueIn(f, t) <= 3))

\* The friends listed under "Needs attention"
overdue(fs, t) ==
    Filter(activeFriends(fs, t),
           LAMBDA f : DueIn(f, t) <= 3 /\ f.lastMeetingDate # Null)

----------------------------------------------------------------------------
(* JSON values as JSON.parse yields them.  A string holding an id keeps it *)
(* in the field id, any other string keeps its characters in s.            *)

JUndefined == [t |-> "undefined"]
JNull == [t |-> "null"]
JNum(n) == [t |-> "number", n |-> n]
\* A number that is not whole: n / d in lowest terms, d > 1
JNumFrac(n, d) == [t |-> "number", n |-> n, d |-> d]
JStr(s) == [t |-> "string", s |-> s]
JId(n) == [t |-> "string", id |-> n]
JBool(b) == [t |-> "boolean", b |-> b]
JArr(items) == [t |-> "array", items |-> items]
JObj(fields) == [t |-> "object", fields |-> fields]
JSyntaxError == [t |-> "SyntaxError"]

\* data?.name : undefined unless data is an object that has the property
Get(j, name) ==
    IF j.t = "object" /\ name \in DOMAIN j.fields THEN j.fields[name] ELSE JUndefined

TypeOf(j) ==
    IF j.t \in {"null", "array", "object"} THEN "object" ELSE j.t

IsArray(j) == j.t = "array"

\* !x
Falsy(j) ==
    \/ j.t \in {"undefined", "null"}
    \/ j.t = "boolean" /\ ~j.b
    \/ j.t = "number" /\ j.n = 0
    \/ j.t = "string" /\ (IF "id" \in DOMAIN j THEN j.id = 0 ELSE j.s = << >>)

NoImport == JNull

MAX_IMPORT_BYTES == 5 * 1024 * 1024

InvalidShape(data) ==
    \/ ~IsArray(Get(data, "friends"))
    \/ ~IsArray(Get(data, "meetings"))
    \/ Falsy(Get(data, "settings"))

ValidFriend(f) ==
    /\ TypeOf(Get(f, "id")) = "string"
    /\ TypeOf(Get(f, "name")) = "string"
    /\ TypeOf(Get(f, "cadenceDays")) = "number"
    /\ Get(f, "cadenceDays").n > 0

\* Variant: the friendId test is missing
ValidMeetingAnyFriend(m) ==
    /\ TypeOf(Get(m, "id")) = "string"
    /\ TypeOf(Get(m, "timestamp")) = "number"

ValidMeeting(m) ==
    /\ TypeOf(Get(m, "id")) = "string"
    /\ TypeOf(Get(m, "friendId")) = "string"
    /\ TypeOf(Get(m, "timestamp")) = "number"

ValidFriends(data) ==
    \A i \in 1..Len(Get(data, "friends").items) : ValidFriend(Get(data, "friends").items[i])

ValidMeetings(data) ==
    \A i \in 1..Len(Get(data, "meetings").items) : ValidMeeting(Get(data, "meetings").items[i])

\* Variant: data.friends instead of data?.friends, so that reading a property
\* of null throws inside the try block
ImportOutcomeUnguarded(file) ==
    IF file.size > MAX_IMPORT_BYTES THEN "File too large (5MB max)"
    ELSE IF file.data = JSyntaxError \/ file.data = JNull THEN "Could not read file"
    ELSE IF InvalidShape(file.data) THEN "Invalid file format"
    ELSE IF ~ValidFriends(file.data) \/ ~ValidMeetings(file.data)
         THEN "Corrupted data in file"
    ELSE "accepted"

\* The outcome of handleImportFile / reader.onload on a file: the toast it
\* shows, or "accepted".
ImportOutcome(file) ==
    IF file.size > MAX_IMPORT_BYTES THEN "File too large (5MB max)"
    ELSE IF file.data = JSyntaxError THEN "Could not read file"
    ELSE IF InvalidShape(file.data) THEN "Invalid file format"
    ELSE IF ~ValidFriends(file.data) \/ ~ValidMeetings(file.data)
         THEN "Corrupted data in file"
    ELSE "accepted"

\* `data as DataExport`: the cast changes nothing; the records of an accepted
\* candidate are read as Friend / Meeting / AppSettings values.
\* The number a JSON number is read as: an integer, or the fraction [n, d]
NumberOf(j) == IF "d" \in DOMAIN j THEN [n |-> j.n, d |-> j.d] ELSE j.n

AsFriend(j) ==
    [j.fields EXCEPT !.id = j.fields.id.id, !.name = j.fields.name.s,
                     !.cadenceDays = NumberOf(j.fields.cadenceDays)]

AsMeeting(j) ==
    [j.fields EXCEPT !.id = j.fields.id.id, !.friendId = j.fields.friendId.id,
                     !.timestamp = j.fields.timestamp.n]

\* { ...x }: the own enumerable properties of x.  A number, a boolean, null
\* and undefined have none; a string and an array have their indices.
IndexKeys == <<"0", "1", "2">>

Spread(j) ==
    IF j.t = "object" THEN j.fields
    ELSE IF j.t = "array" THEN [k \in {IndexKeys[i] : i \in 1..Len(j.items)} |->
                                   j.items[CHOOSE i \in 1..Len(j.items) : IndexKeys[i] = k]]
    ELSE IF j.t = "string" /\ "s" \in DOMAIN j
         THEN [k \in {IndexKeys[i] : i \in 1..Len(j.s)} |->
                  j.s[CHOOSE i \in 1..Len(j.s) : IndexKeys[i] = k]]
    ELSE << >>

\* { ...a, ...b }
Merge(a, b) ==
    [k \in DOMAIN a \cup DOMAIN b |-> IF k \in DOMAIN b THEN b[k] ELSE a[k]]

----------------------------------------------------------------------------
(* Backup files the user may pick *)

FileFriend(id, cadence, streak, mult) ==
    JObj([id |-> JId(id), name |-> JStr(<<"Z">>), relationshipTier |-> "close",
          cadenceDays |-> JNum(cadence), lastMeetingDate |-> Null,
          streakCount |-> streak, multiplier |-> mult, totalMeetings |-> 0,
          isArchived |-> FALSE, createdAt |-> T0, updatedAt |-> T0])

FileMeeting(id, fid) ==
    JObj([id |-> JId(id), friendId |-> JId(fid), timestamp |-> JNum(T0),
          createdAt |-> T0])

FileFriendCounted(id, cadence, total) ==
    JObj([id |-> JId(id), name |-> JStr(<<"Z">>), relationshipTier |-> "close",
          cadenceDays |-> JNum(cadence), lastMeetingDate |-> T0,
          streakCount |-> 2, multiplier |-> 12, totalMeetings |-> total,
          isArchived |-> FALSE, createdAt |-> T0, updatedAt |-> T0])

\* A friend record with the soft-delete flag set
FileFriendArchived(id, cadence, streak) ==
    JObj([id |-> JId(id), name |-> JStr(<<"Y">>), relationshipTier |-> "close",
          cadenceDays |-> JNum(cadence), lastMeetingDate |-> T0,
          streakCount |-> streak, multiplier |-> 12, totalMeetings |-> 2,
          isArchived |-> TRUE, createdAt |-> T0, updatedAt |-> T0])

FileMeetingAt(id, fid, t) ==
    JObj([id |-> JId(id), friendId |-> JId(fid), timestamp |-> JNum(t),
          createdAt |-> t])

\* A meeting record without friendId
FileMeetingOrphan(id) ==
    JObj([id |-> JId(id), timestamp |-> JNum(T0), createdAt |-> T0])

FileSettings == JObj([theme |-> "dark", hasCompletedOnboarding |-> FALSE])

FileData(fs, ms) ==
    JObj([version |-> JStr(<<"4">>), exportedAt |-> JNum(T0),
          friends |-> JArr(fs), meetings |-> JArr(ms), settings |-> FileSettings])

ImportFiles ==
    { [size |-> 100, data |-> FileData(<<FileFriend(100, 1, 0, 10)>>, << >>)],
      [size |-> 100, data |-> FileData(<<FileFriend(100, 1, 0, 25)>>, << >>)],
      [size |-> 100, data |-> FileData(<<FileFriend(100, 0, 0, 10)>>, << >>)],
      [size |-> 100, data |-> FileData(<<FileFriend(100, 1, 0, 10)>>,
                                       <<FileMeetingOrphan(200)>>)],
      [size |-> 100, data |-> JSyntaxError],
      [size |-> 100, data |-> JNull],
      [size |-> MAX_IMPORT_BYTES + 1, data |-> FileData(<< >>, << >>)] }

\* No backup has been downloaded / no card is being rendered
NoFile == [size |-> 0, data |-> JUndefined]
NoRender == [phase |-> "idle"]

----------------------------------------------------------------------------
(* Candidates for the validator: every way a field it reads can be a       *)
(* non-empty string, an empty string, of another type, or missing.         *)

FileFriendRest ==
    [relationshipTier |-> "close", lastMeetingDate |-> Null, streakCount |-> 0,
     multiplier |-> MULTIPLIER_BASE, totalMeetings |-> 0, isArchived |-> FALSE,
     createdAt |-> T0, updatedAt |-> T0]

\* An object with the fields of read that are not undefined, and rest
JObjOf(read, rest) ==
    JObj(Merge(rest, [k \in {x \in DOMAIN read : read[x] # JUndefined} |-> read[k]]))

IdValues == {JId(100), JId(0), JNum(7), JUndefined}
NameValues == {JStr(<<"Z">>), JStr(<< >>), JUndefined}
CadenceValues == {JNum(1), JNum(0), JStr(<<"7">>), JUndefined}
TimestampValues == {JNum(T0), JStr(<<"1">>), JUndefined}
SettingsValues ==
    {FileSettings, JNum(5), JNum(0), JStr(<<"x">>), JStr(<< >>), JBool(TRUE),
     JBool(FALSE), JArr(<< >>), JNull, JUndefined}
ListValues(items) == {JArr(items), JObj([length |-> JNum(0)]), JUndefined}

CandidateFriends ==
    {JObjOf([id |-> i, name |-> n, cadenceDays |-> c], FileFriendRest) :
        i \in IdValues, n \in NameValues, c \in CadenceValues}

CandidateMeetings ==
    {JObjOf([id |-> i, friendId |-> f, timestamp |-> t], [createdAt |-> T0]) :
        i \in IdValues, f \in IdValues, t \in TimestampValues}

CandidateData ==
    {FileData(<<f>>, << >>) : f \in CandidateFriends}
    \cup {FileData(<<FileFriend(100, 1, 0, 10)>>, <<m>>) : m \in CandidateMeetings}
    \cup {JObjOf([friends |-> fs, meetings |-> ms, settings |-> st],
                 [version |-> JStr(<<"4">>), exportedAt |-> JNum(T0)]) :
            fs \in ListValues(<<FileFriend(100, 1, 0, 10)>>),
            ms \in ListValues(<< >>), st \in SettingsValues}
    \cup {JSyntaxError, JNull, JNum(5)}

CandidateFiles ==
    {[size |-> 100, data |-> d] : d \in CandidateData}
    \cup {[size |-> MAX_IMPORT_BYTES + 1, data |-> FileData(<< >>, << >>)]}

----------------------------------------------------------------------------
(* Persistence: the effect on [appState] writes JSON.stringify(appState)   *)
(* to localStorage after every commit that replaced appState.              *)

\* m.note, undefined when the property is absent
NoteOf(m) == IF "note" \in DOMAIN m THEN m.note ELSE << >>

\* What JSON.parse reads back from the text JSON.stringify wrote: a property
\* whose value is undefined is not written.
ExportFriend(f) ==
    JObj([f EXCEPT !.id = JId(f.id), !.name = JStr(f.name),
                   !.cadenceDays = JNum(f.cadenceDays)])

ExportMeeting(m) ==
    JObj([k \in {x \in DOMAIN m : x # "note" \/ NoteOf(m) # << >>} |->
            IF k \in {"id", "friendId"} THEN JId(m[k])
            ELSE IF k = "timestamp" THEN JNum(m[k])
            ELSE m[k]])

\* JSON.stringify(appState), as JSON.parse reads it back
Stringify(fs, ms, st) ==
    JObj([friends |-> JArr(Map(fs, ExportFriend)),
          meetings |-> JArr(Map(ms, ExportMeeting)),
          settings |-> JObj(st)])

\* localStorage.getItem returns null: nothing was ever stored, or the site
\* data was cleared
NoItem == [t |-> "absent"]

\* The snapshot of a first start
EmptySnapshot ==
    [friends |-> << >>, meetings |-> << >>,
     settings |-> [theme |-> "auto", hasCompletedOnboarding |-> FALSE]]

\* The initialiser of appState: the stored value if there is one and it
\* parses, unvalidated
InitialAppState(saved) ==
    IF saved = NoItem \/ saved = JSyntaxError THEN EmptySnapshot
    ELSE [friends |-> Map(saved.fields.friends.items, AsFriend),
          meetings |-> Map(saved.fields.meetings.items, AsMeeting),
          settings |-> saved.fields.settings.fields]

\* What becomes of a write: App.tsx and part_001 wrap setItem in try/catch
PersistenceOutcome(fails) == IF fails THEN "swallowed" ELSE "written"

\* part_000 (v2.3.0) calls setItem bare: the exception leaves the effect and
\* React unmounts the component tree
PersistenceOutcome_v230(fails) == IF fails THEN "thrown" ELSE "written"

\* Variant: the effect writes the snapshot it closed over before the update
PersistenceEffectStale ==
    stored' = IF PersistenceOutcome(storageFails) = "written"
              THEN Stringify(friends, meetings, settings)
              ELSE stored

PersistenceEffect ==
    stored' = IF PersistenceOutcome(storageFails) = "written"
              THEN Stringify(friends', meetings', settings')
              ELSE stored

----------------------------------------------------------------------------
Init ==
    /\ friends = << >>
    /\ meetings = << >>
    /\ settings = [theme |-> "auto", hasCompletedOnboarding |-> FALSE]
    /\ toasts = << >>
    /\ importData = NoImport
    /\ currentModal = "none"
    /\ modalError = NO_ERROR
    /\ now = T0
    /\ nextFriendId = 1
    /\ nextMeetingId = 1
    /\ errorToast = ""
    /\ backup = NoFile
    /\ render = NoRender
    /\ stored = Stringify(<< >>, << >>, [theme |-> "auto", hasCompletedOnboarding |-> FALSE])
    /\ storageFails = FALSE
    /\ replaced = FALSE

\* The onboarding screen replaces the whole UI until it is completed.
Onboarded == settings.hasCompletedOnboarding

\* The screens from which the handlers below are reached: no modal is open.
Idle == Onboarded /\ currentModal = "none"

handleOnboardingComplete ==
    /\ ~Onboarded
    /\ settings' = [settings EXCEPT !.hasCompletedOnboarding = TRUE]
    /\ UNCHANGED <<friends, meetings, toasts, importData, currentModal,
                   modalError, now, nextFriendId, nextMeetingId,
                   errorToast, backup, render, storageFails, replaced>>
    /\ PersistenceEffect

----------------------------------------------------------------------------
(* Add / edit a friend *)

\* The "+" button: disabled once 10 friends are active.
OpenAddFriend ==
    /\ Idle
    /\ ActiveFriendCount(friends) < FRIEND_LIMIT
    /\ currentModal' = "add-friend"
    /\ modalError' = NO_ERROR
    /\ UNCHANGED <<friends, meetings, settings, toasts, importData, now,
                   nextFriendId, nextMeetingId,
                   errorToast, backup, render, stored,
                   storageFails, replaced>>

CloseAddFriend ==
    /\ currentModal = "add-friend"
    /\ currentModal' = "none"
    /\ modalError' = NO_ERROR
    /\ UNCHANGED <<friends, meetings, settings, toasts, importData, now,
                   nextFriendId, nextMeetingId,
                   errorToast, backup, render, stored,
                   storageFails, replaced>>

NewFriend(id, data, t) ==
    [id |-> id, name |-> data.name, relationshipTier |-> data.relationshipTier,
     cadenceDays |-> data.cadenceDays, lastMeetingDate |-> Null, streakCount |-> 0,
     multiplier |-> MULTIPLIER_BASE, totalMeetings |-> 0, isArchived |-> FALSE,
     createdAt |-> t, updatedAt |-> t]

\* Variant: the limit test is off by one
SaveErrorOffByOne(name, friendCount) ==
    IF Trim(name) = << >> THEN ERR_NAME
    ELSE IF friendCount > FRIEND_LIMIT THEN ERR_LIMIT
    ELSE NO_ERROR

\* parseInt(value, 10): leading blanks, an optional sign, then the longest
\* run of decimal digits; NaN when there is no digit
DigitValue(c) ==
    CASE c = "0" -> 0 [] c = "1" -> 1 [] c = "2" -> 2 [] c = "3" -> 3
      [] c = "4" -> 4 [] c = "5" -> 5 [] c = "6" -> 6 [] c = "7" -> 7
      [] c = "8" -> 8 [] c = "9" -> 9 [] OTHER -> Null

RECURSIVE ParseDigits(_, _, _)
ParseDigits(s, acc, seen) ==
    IF s # << >> /\ DigitValue(Head(s)) # Null
    THEN ParseDigits(Tail(s), 10 * acc + DigitValue(Head(s)), TRUE)
    ELSE [nan |-> ~seen, v |-> acc]

parseInt(value) ==
    LET s == TrimLeft(value)
    IN IF s # << >> /\ Head(s) = "-"
       THEN LET p == ParseDigits(Tail(s), 0, FALSE) IN [p EXCEPT !.v = -p.v]
       ELSE IF s # << >> /\ Head(s) = "+" THEN ParseDigits(Tail(s), 0, FALSE)
       ELSE ParseDigits(s, 0, FALSE)

MIN_CADENCE == 1
MAX_CADENCE == 365
presets == {7, 14, 21, 30, 60, 90}

\* AddEditFriendModal's cadence state after handleCadenceInputChange
handleCadenceInputChange(cadence, value) ==
    LET numValue == parseInt(value)
    IN IF ~numValue.nan /\ numValue.v >= MIN_CADENCE /\ numValue.v <= MAX_CADENCE
       THEN numValue.v
       ELSE cadence

\* AddEditFriendModal's cadence state after handleCadenceInputBlur
handleCadenceInputBlur(cadence, cadenceInput) ==
    LET numValue == parseInt(cadenceInput)
    IN IF numValue.nan \/ numValue.v < MIN_CADENCE THEN cadence
       ELSE IF MAX_CADENCE < numValue.v THEN MAX_CADENCE ELSE numValue.v

\* The cadence handleSave passes on after the user typed value into the
\* field and, if blurred, left the field
TypedCadence(cadence, value, blurred) ==
    IF blurred
    THEN handleCadenceInputBlur(handleCadenceInputChange(cadence, value), value)
    ELSE handleCadenceInputChange(cadence, value)

\* AddEditFriendModal.handleSave's verdict for a new friend
SaveError(name, friendCount) ==
    IF Trim(name) = << >> THEN ERR_NAME
    ELSE IF friendCount >= FRIEND_LIMIT THEN ERR_LIMIT
    ELSE NO_ERROR

\* AddEditFriendModal.handleSave (no friend prop) and, when it passes,
\* handleAddFriend.
handleAddFriend(maxIds, name, tier, cadence) ==
    /\ currentModal = "add-friend"
    /\ UNCHANGED <<meetings, settings, toasts, importData, now, nextMeetingId,
                   errorToast, backup, render, storageFails>>
    /\ LET err == SaveError(name, ActiveFriendCount(friends))
           data == [name |-> Trim(name), relationshipTier |-> tier,
                    cadenceDays |-> cadence]
       IN IF err # NO_ERROR
          THEN /\ modalError' = err
               /\ UNCHANGED <<friends, currentModal, nextFriendId, stored, replaced>>
          ELSE /\ nextFriendId <= maxIds
               /\ friends' = Append(friends, NewFriend(nextFriendId, data, now))
               /\ nextFriendId' = nextFriendId + 1
               /\ currentModal' = "none"
               /\ modalError' = NO_ERROR
               /\ replaced' = FALSE
               /\ PersistenceEffect

\* The friends the screens show and let the user select
Selectable(fid) ==
    \E i \in 1..Len(friends) : friends[i].id = fid /\ ~friends[i].isArchived

Selected(fid) == Head(FindFriend(friends, fid))

\* Variant: the friend is built anew from the form, as handleAddFriend does
handleEditFriendRebuilt(fid, name, tier, cadence) ==
    /\ Idle
    /\ Selectable(fid)
    /\ Trim(name) # << >>
    /\ friends' = Map(friends, LAMBDA f :
            IF f.id = fid
            THEN [f EXCEPT !.name = Trim(name), !.relationshipTier = tier,
                           !.cadenceDays = cadence, !.updatedAt = now,
                           !.lastMeetingDate = Null, !.streakCount = 0,
                           !.multiplier = MULTIPLIER_BASE, !.totalMeetings = 0]
            ELSE f)
    /\ UNCHANGED <<meetings, settings, toasts, importData, currentModal,
                   modalError, now, nextFriendId, nextMeetingId,
                   errorToast, backup, render, storageFails, replaced>>
    /\ PersistenceEffect

\* AddEditFriendModal.handleSave (friend prop set) and handleEditFriend
handleEditFriend(fid, name, tier, cadence) ==
    /\ Idle
    /\ Selectable(fid)
    /\ Trim(name) # << >>
    /\ friends' = Map(friends, LAMBDA f :
            IF f.id = fid
            THEN [f EXCEPT !.name = Trim(name), !.relationshipTier = tier,
                           !.cadenceDays = cadence, !.updatedAt = now]
            ELSE f)
    /\ UNCHANGED <<meetings, settings, toasts, importData, currentModal,
                   modalError, now, nextFriendId, nextMeetingId,
                   errorToast, backup, render, storageFails, replaced>>
    /\ PersistenceEffect

----------------------------------------------------------------------------
(* Log a meeting *)

\* Variant: the Meeting is stamped half a day before the friend is
NewMeetingBackdated(id, fid, t, note) ==
    [id |-> id, friendId |-> fid, timestamp |-> t - 1, note |-> note, createdAt |-> t]

NewMeeting(id, fid, t, note) ==
    [id |-> id, friendId |-> fid, timestamp |-> t, note |-> note, createdAt |-> t]

\* Variant: the updater forgets the id test and rewrites every friend
LoggedFriendsAll(prev, friend, t) ==
    Map(prev, LAMBDA f :
        [f EXCEPT !.lastMeetingDate = t,
                  !.streakCount = NewStreak(friend, t),
                  !.multiplier = NewMultiplier(NewStreak(friend, t)),
                  !.totalMeetings = f.totalMeetings + 1,
                  !.updatedAt = t])

\* Variant: the updater leaves totalMeetings as it is
LoggedFriendsUncounted(prev, friend, t) ==
    Map(prev, LAMBDA f :
        IF f.id = friend.id
        THEN [f EXCEPT !.lastMeetingDate = t,
                       !.streakCount = NewStreak(friend, t),
                       !.multiplier = NewMultiplier(NewStreak(friend, t)),
                       !.updatedAt = t]
        ELSE f)

\* The updater both log handlers queue: friend is the closure's copy of the
\* friend, prev the state the updater is applied to.
LoggedFriends(prev, friend, t) ==
    Map(prev, LAMBDA f :
        IF f.id = friend.id
        THEN [f EXCEPT !.lastMeetingDate = t,
                       !.streakCount = NewStreak(friend, t),
                       !.multiplier = NewMultiplier(NewStreak(friend, t)),
                       !.totalMeetings = f.totalMeetings + 1,
                       !.updatedAt = t]
        ELSE f)

\* Variant: the Meeting is appended in one update and the friend rewritten in
\* a later one, so the first half is committed alone
LogUpdateTorn(fid, note) ==
    /\ friends' = friends
    /\ meetings' = Append(meetings, NewMeeting(nextMeetingId, fid, now, note))
    /\ nextMeetingId' = nextMeetingId + 1

LogUpdate(fid, note) ==
    /\ friends' = LoggedFriends(friends, Selected(fid), now)
    /\ meetings' = Append(meetings, NewMeeting(nextMeetingId, fid, now, note))
    /\ nextMeetingId' = nextMeetingId + 1

\* LogMeetingModal's onSave(note.trim() || undefined)
handleLogMeeting(maxIds, fid, noteInput) ==
    /\ Idle
    /\ Selectable(fid)
    /\ nextMeetingId <= maxIds
    /\ LogUpdate(fid, Trim(noteInput))
    /\ UNCHANGED <<settings, toasts, importData, currentModal, modalError, now,
                   nextFriendId,
                   errorToast, backup, render, storageFails>>
    /\ PersistenceEffect
    /\ replaced' = FALSE

\* handleQuickLogRequest, then "No, just log it"
handleQuickLogWithoutNote(maxIds, fid) ==
    /\ Idle
    /\ Selectable(fid)
    /\ nextMeetingId <= maxIds
    /\ LogUpdate(fid, << >>)
    /\ UNCHANGED <<settings, toasts, importData, currentModal, modalError, now,
                   nextFriendId,
                   errorToast, backup, render, storageFails>>
    /\ PersistenceEffect
    /\ replaced' = FALSE

\* handleQuickLogRequest of v4.4.0 (src/unnamed/part_001) called twice for the
\* same card inside one React batch (two click events dispatched within one
\* task): both calls run in the closure of the same render, so both read the
\* same friend, and their two updaters are applied one after the other when
\* the batch is committed.
BatchedQuickLogs(maxIds, fid) ==
    /\ Idle
    /\ Selectable(fid)
    /\ nextMeetingId + 1 <= maxIds
    /\ LET friend == Selected(fid)
           first == LoggedFriends(friends, friend, now)
       IN /\ friends' = LoggedFriends(first, friend, now)
          /\ meetings' = meetings \o <<NewMeeting(nextMeetingId, fid, now, << >>),
                                       NewMeeting(nextMeetingId + 1, fid, now, << >>)>>
    /\ nextMeetingId' = nextMeetingId + 2
    /\ UNCHANGED <<settings, toasts, importData, currentModal, modalError, now,
                   nextFriendId,
                   errorToast, backup, render, storageFails>>
    /\ PersistenceEffect
    /\ replaced' = FALSE

RemoveAt(s, i) == SubSeq(s, 1, i - 1) \o SubSeq(s, i + 1, Len(s))

\* The toast of v4.4.0's quick log, with its action
AddNoteToast(fid) == [label |-> "Add note", friendId |-> fid]

\* handleQuickLogRequest of v4.4.0 (src/unnamed/part_001): the card's button
\* logs at once and offers 'Add note' on the toast
handleQuickLogRequest(maxIds, maxToasts, fid) ==
    /\ Idle
    /\ Selectable(fid)
    /\ nextMeetingId <= maxIds
    /\ Len(toasts) < maxToasts
    /\ LogUpdate(fid, << >>)
    /\ toasts' = Append(toasts, AddNoteToast(fid))
    /\ UNCHANGED <<settings, importData, currentModal, modalError, now,
                   nextFriendId,
                   errorToast, backup, render, storageFails>>
    /\ PersistenceEffect
    /\ replaced' = FALSE

\* The toast's 'Add note' button of v4.4.0 (onAction selects the friend and
\* opens the log modal, onDismiss removes the toast), then LogMeetingModal's
\* onSave(note.trim() || undefined): handleLogMeeting
AddNoteThenSave(maxIds, i, noteInput) ==
    /\ Idle
    /\ i \in 1..Len(toasts)
    /\ Selectable(toasts[i].friendId)
    /\ nextMeetingId <= maxIds
    /\ LogUpdate(toasts[i].friendId, Trim(noteInput))
    /\ toasts' = RemoveAt(toasts, i)
    /\ UNCHANGED <<settings, importData, currentModal, modalError, now,
                   nextFriendId,
                   errorToast, backup, render, storageFails>>
    /\ PersistenceEffect
    /\ replaced' = FALSE

----------------------------------------------------------------------------
(* Delete with undo *)

WithoutFriend(fs, fid) == Filter(fs, LAMBDA f : f.id # fid)

\* Variant: the deleted meetings are read after the removal
MeetingsOfRemoved(ms, fid) == << >>

MeetingsOf(ms, fid) == Filter(ms, LAMBDA m : m.friendId = fid)

\* Variant: the friend's meetings are left behind
WithoutMeetingsOfKept(ms, fid) == ms

WithoutMeetingsOf(ms, fid) == Filter(ms, LAMBDA m : m.friendId # fid)

UndoToast(friend, deletedMeetings) ==
    [friend |-> friend, deletedMeetings |-> deletedMeetings]

handleDeleteFriend(maxToasts, fid) ==
    /\ Idle
    /\ Selectable(fid)
    /\ Len(toasts) < maxToasts
    /\ friends' = WithoutFriend(friends, fid)
    /\ meetings' = WithoutMeetingsOf(meetings, fid)
    /\ toasts' = Append(toasts, UndoToast(Selected(fid), MeetingsOf(meetings, fid)))
    /\ UNCHANGED <<settings, importData, currentModal, modalError, now,
                   nextFriendId, nextMeetingId,
                   errorToast, backup, render, storageFails>>
    /\ PersistenceEffect
    /\ replaced' = FALSE

\* Variant: the Undo puts the meetings back and forgets the friend
UndoFriendsForgotten(prev, toast) == prev

\* The updater of the toast's onAction, applied to prev
UndoFriends(prev, toast) == Append(prev, toast.friend)

\* Variant: the meeting list is set to the deleted meetings
UndoMeetingsReplacing(prev, toast) == toast.deletedMeetings

UndoMeetings(prev, toast) == prev \o toast.deletedMeetings

\* The toast's Undo button: toast.action.onAction(); onDismiss(toast.id)
UndoDelete(i) ==
    /\ i \in 1..Len(toasts)
    /\ friends' = UndoFriends(friends, toasts[i])
    /\ meetings' = UndoMeetings(meetings, toasts[i])
    /\ toasts' = RemoveAt(toasts, i)
    /\ replaced' = (replaced /\ toasts' # << >>)
    /\ UNCHANGED <<settings, importData, currentModal, modalError, now,
                   nextFriendId, nextMeetingId,
                   errorToast, backup, render, storageFails>>
    /\ PersistenceEffect

\* ToastContainer's timers are all restarted whenever toasts changes, so the
\* oldest toast's timer is the one that fires.
ExpireToast ==
    /\ toasts # << >>
    /\ toasts' = Tail(toasts)
    /\ replaced' = (replaced /\ toasts' # << >>)
    /\ UNCHANGED <<friends, meetings, settings, importData, currentModal,
                   modalError, now, nextFriendId, nextMeetingId,
                   errorToast, backup, render, stored,
                   storageFails>>

----------------------------------------------------------------------------
(* Import / reset *)

handleImportFile(file) ==
    /\ Idle
    /\ UNCHANGED <<friends, meetings, settings, toasts, modalError, now,
                   nextFriendId, nextMeetingId, backup, render, stored,
                   storageFails, replaced>>
    /\ IF ImportOutcome(file) = "accepted"
       THEN /\ importData' = file.data
            /\ currentModal' = "import-confirm"
            /\ UNCHANGED errorToast
       ELSE /\ errorToast' = ImportOutcome(file)
            /\ UNCHANGED <<importData, currentModal>>

\* Variant: the candidate is merged into the snapshot instead of replacing it
confirmImportMerging ==
    /\ currentModal = "import-confirm"
    /\ importData # NoImport
    /\ friends' = friends \o Map(importData.fields.friends.items, AsFriend)
    /\ meetings' = meetings \o Map(importData.fields.meetings.items, AsMeeting)
    /\ settings' = Merge(Spread(importData.fields.settings),
                         [hasCompletedOnboarding |-> TRUE])
    /\ importData' = NoImport
    /\ currentModal' = "none"
    /\ UNCHANGED <<toasts, modalError, now, nextFriendId, nextMeetingId,
                   errorToast, backup, render, storageFails>>
    /\ PersistenceEffect
    /\ replaced' = (toasts # << >>)

\* Variant: the settings are taken from the candidate as they are
confirmImportVerbatim ==
    /\ currentModal = "import-confirm"
    /\ importData # NoImport
    /\ friends' = Map(importData.fields.friends.items, AsFriend)
    /\ meetings' = Map(importData.fields.meetings.items, AsMeeting)
    /\ settings' = Merge([hasCompletedOnboarding |-> FALSE],
                         Spread(importData.fields.settings))
    /\ importData' = NoImport
    /\ currentModal' = "none"
    /\ UNCHANGED <<toasts, modalError, now, nextFriendId, nextMeetingId,
                   errorToast, backup, render, storageFails>>
    /\ PersistenceEffect
    /\ replaced' = (toasts # << >>)

confirmImport ==
    /\ currentModal = "import-confirm"
    /\ importData # NoImport
    /\ friends' = Map(importData.fields.friends.items, AsFriend)
    /\ meetings' = Map(importData.fields.meetings.items, AsMeeting)
    /\ settings' = Merge(Spread(importData.fields.settings),
                         [hasCompletedOnboarding |-> TRUE])
    /\ importData' = NoImport
    /\ currentModal' = "none"
    /\ UNCHANGED <<toasts, modalError, now, nextFriendId, nextMeetingId,
                   errorToast, backup, render, storageFails>>
    /\ PersistenceEffect
    /\ replaced' = (toasts # << >>)

\* ImportConfirmModal's onClose
cancelImport ==
    /\ currentModal = "import-confirm"
    /\ importData' = NoImport
    /\ currentModal' = "none"
    /\ UNCHANGED <<friends, meetings, settings, toasts, modalError, now,
                   nextFriendId, nextMeetingId,
                   errorToast, backup, render, stored,
                   storageFails, replaced>>

----------------------------------------------------------------------------
(* Export: JSON.stringify(exportData, null, 2) in a Blob, downloaded        *)

LongRun == "(5 MiB of text)"

\* Bytes of the pretty-printed JSON around the records, of a friend record
\* without the characters of its name, of a meeting record without a note,
\* and of the note property without the characters of the note (ids are
\* 36-character UUIDs; every number is counted with a single digit).
ENVELOPE_JSON_BYTES == 257
FRIEND_JSON_BYTES == 316
MEETING_JSON_BYTES == 166
NOTE_JSON_BYTES == 18

RECURSIVE StringBytes(_)
StringBytes(str) ==
    IF str = << >> THEN 0
    ELSE (IF Head(str) = LongRun THEN MAX_IMPORT_BYTES ELSE 1) + StringBytes(Tail(str))

RECURSIVE FriendsBytes(_)
FriendsBytes(fs) ==
    IF fs = << >> THEN 0
    ELSE FRIEND_JSON_BYTES + StringBytes(Head(fs).name) + FriendsBytes(Tail(fs))

RECURSIVE MeetingsBytes(_)
MeetingsBytes(ms) ==
    IF ms = << >> THEN 0
    ELSE MEETING_JSON_BYTES
         + (IF NoteOf(Head(ms)) = << >> THEN 0
            ELSE NOTE_JSON_BYTES + StringBytes(NoteOf(Head(ms))))
         + MeetingsBytes(Tail(ms))

\* blob.size
ExportSize(fs, ms) == ENVELOPE_JSON_BYTES + FriendsBytes(fs) + MeetingsBytes(ms)

ExportData(fs, ms, st, t) ==
    JObj([version |-> JStr(<<"4">>), exportedAt |-> JNum(t),
          friends |-> JArr(Map(fs, ExportFriend)),
          meetings |-> JArr(Map(ms, ExportMeeting)),
          settings |-> JObj(st)])

handleExport ==
    /\ Idle
    /\ backup' = [size |-> ExportSize(friends, meetings),
                  data |-> ExportData(friends, meetings, settings, now)]
    /\ UNCHANGED <<friends, meetings, settings, toasts, importData, currentModal,
                   modalError, now, nextFriendId, nextMeetingId, errorToast,
                   render, stored,
                   storageFails, replaced>>

\* { theme: appState.settings.theme }: undefined when the settings have none
ThemeOf(s) == [k \in {"theme"} \cap DOMAIN s |-> s[k]]

handleResetData ==
    /\ Idle
    /\ friends' = << >>
    /\ meetings' = << >>
    /\ settings' = Merge(ThemeOf(settings), [hasCompletedOnboarding |-> TRUE])
    /\ UNCHANGED <<toasts, importData, currentModal, modalError, now,
                   nextFriendId, nextMeetingId,
                   errorToast, backup, render, storageFails>>
    /\ PersistenceEffect
    /\ replaced' = (toasts # << >>)

----------------------------------------------------------------------------
(* The wall clock.  Between two events at least half a day apart every     *)
(* toast timer (3 s / 5 s) has fired.                                      *)

Tick(step, maxNow) ==
    /\ now + step <= maxNow
    /\ now' = now + step
    /\ toasts' = << >>
    /\ replaced' = FALSE
    /\ UNCHANGED <<friends, meetings, settings, importData, currentModal,
                   modalError, nextFriendId, nextMeetingId,
                   errorToast, backup, render, stored,
                   storageFails>>

----------------------------------------------------------------------------
(* The application: every handler of App.tsx but the import, with small   *)
(* inputs.  A friend is created with a cadence of 1 day and edited to     *)
(* "B", casual, 2 days; the log modal is saved with a blank note.         *)

Next ==
    \/ handleOnboardingComplete
    \/ OpenAddFriend
    \/ CloseAddFriend
    \/ \E n \in NameInputs :
          handleAddFriend(MaxFriendIds, n, "close", 1)
    \/ \E f \in Range(friends) :
          handleEditFriend(f.id, <<"B">>, "casual", 2)
    \/ \E f \in Range(friends) :
          handleLogMeeting(MaxMeetingIds, f.id, <<" ">>)
    \/ \E f \in Range(friends) : handleQuickLogWithoutNote(MaxMeetingIds, f.id)
    \/ \E f \in Range(friends) : handleDeleteFriend(MaxToasts, f.id)
    \/ \E i \in 1..Len(toasts) : UndoDelete(i)
    \/ ExpireToast
    \/ handleResetData
    \/ Tick(1, MaxNow)

Spec == Init /\ [][Next]_vars

----------------------------------------------------------------------------
(* Logging over several days: one friend is added, edited and logged while *)
(* the clock runs in half-day steps and in steps of ten days, long enough  *)
(* for a streak to extend and to break at a cadence of 1 and of 14 days.   *)

NextLog ==
    \/ handleOnboardingComplete
    \/ OpenAddFriend
    \/ \E c \in LogCadences : handleAddFriend(1, <<"A">>, "close", c)
    \/ \E f \in Range(friends), c \in LogCadences :
          handleEditFriend(f.id, <<"A">>, "close", c)
    \/ \E f \in Range(friends) : handleLogMeeting(LogMeetingIds, f.id, <<" ">>)
    \/ \E f \in Range(friends) : handleQuickLogWithoutNote(LogMeetingIds, f.id)
    \/ Tick(1, LogMaxNow)
    \/ Tick(10 * MS_PER_DAY, LogMaxNow + 30 * MS_PER_DAY)

SpecLog == Init /\ [][NextLog]_vars

----------------------------------------------------------------------------
(* One friend logged many times: the streak grows past the multiplier cap. *)

NextStreak ==
    \/ handleOnboardingComplete
    \/ OpenAddFriend
    \/ handleAddFriend(1, <<"A">>, "close", 1)
    \/ \E f \in Range(friends) : handleLogMeeting(StreakMeetingIds, f.id, <<" ">>)
    \/ \E f \in Range(friends) : handleQuickLogWithoutNote(StreakMeetingIds, f.id)
    \/ Tick(1, StreakMaxNow)

SpecStreak == Init /\ [][NextStreak]_vars

----------------------------------------------------------------------------
(* Capacity: friends are added up to the limit.  The limit reads only the  *)
(* number of friends, so the user removes the newest friend only.          *)

Newest(fs) == {fs[i].id : i \in {Len(fs)} \cap DOMAIN fs}

NextCap ==
    \/ handleOnboardingComplete
    \/ OpenAddFriend
    \/ CloseAddFriend
    \/ \E n \in NameInputs :
          handleAddFriend(CapFriendIds, n, "close", DEFAULT_CADENCE)
    \* room is made only once the list is at least half full
    \/ \E fid \in Newest(friends) :
          /\ 2 * ActiveFriendCount(friends) >= FRIEND_LIMIT
          /\ handleDeleteFriend(CapToasts, fid)
    \/ \E i \in 1..Len(toasts) : UndoDelete(i)
    \/ ExpireToast

SpecCap == Init /\ [][NextCap]_vars

----------------------------------------------------------------------------
(* Import: backup files are picked, confirmed or cancelled among the other *)
(* mutations.                                                              *)

NextImport ==
    \/ handleOnboardingComplete
    \/ OpenAddFriend
    \/ CloseAddFriend
    \/ handleAddFriend(ImportFriendIds, <<"A">>, "close", 1)
    \/ \E f \in Range(friends) : handleLogMeeting(ImportMeetingIds, f.id, <<"o", "k">>)
    \/ \E f \in Range(friends) : handleDeleteFriend(ImportToasts, f.id)
    \/ \E i \in 1..Len(toasts) : UndoDelete(i)
    \/ ExpireToast
    \/ \E file \in ImportFiles : handleImportFile(file)
    \/ confirmImport
    \/ cancelImport
    \/ handleResetData

SpecImport == Init /\ [][NextImport]_vars

----------------------------------------------------------------------------
(* Refused backups: files are picked, confirmed or cancelled while friends *)
(* are added and logged.                                                   *)

NextReject ==
    \/ handleOnboardingComplete
    \/ OpenAddFriend
    \/ CloseAddFriend
    \/ handleAddFriend(ImportFriendIds, <<"A">>, "close", 1)
    \/ \E f \in Range(friends) : handleLogMeeting(ImportMeetingIds, f.id, <<"o", "k">>)
    \/ \E file \in ImportFiles : handleImportFile(file)
    \/ confirmImport
    \/ cancelImport

SpecReject == Init /\ [][NextReject]_vars

----------------------------------------------------------------------------
(* Health score.  JavaScript numbers are modelled as exact fractions       *)
(* [n, d] in lowest terms with d > 0.                                      *)

Max(a, b) == IF a > b THEN a ELSE b

Abs(a) == IF a < 0 THEN -a ELSE a

RECURSIVE Gcd(_, _)
Gcd(a, b) == IF b = 0 THEN a ELSE Gcd(b, a % b)

Frac(n, d) ==
    LET g == Gcd(Abs(n), Abs(d))
        sign == IF d < 0 THEN -1 ELSE 1
    IN [n |-> sign * (n \div g), d |-> sign * (d \div g)]

Num(k) == [n |-> k, d |-> 1]

FAdd(a, b) == Frac(a.n * b.d + b.n * a.d, a.d * b.d)
FSub(a, b) == Frac(a.n * b.d - b.n * a.d, a.d * b.d)
FMul(a, b) == Frac(a.n * b.n, a.d * b.d)
FDiv(a, b) == Frac(a.n * b.d, a.d * b.n)
FLess(a, b) == a.n * b.d < b.n * a.d
FMax(a, b) == IF FLess(a, b) THEN b ELSE a
FMin(a, b) == IF FLess(b, a) THEN b ELSE a
FAbs(a) == [n |-> Abs(a.n), d |-> a.d]

\* Math.round: the nearest integer, a tie going up
FRound(a) == (2 * a.n + a.d) \div (2 * a.d)

\* Array.prototype.sort by a.timestamp - b.timestamp: stable
RECURSIVE InsertByTimestamp(_, _)
InsertByTimestamp(sorted, m) ==
    IF sorted = << >> THEN <<m>>
    ELSE IF m.timestamp < Head(sorted).timestamp THEN <<m>> \o sorted
    ELSE <<Head(sorted)>> \o InsertByTimestamp(Tail(sorted), m)

RECURSIVE SortByTimestamp(_)
SortByTimestamp(ms) ==
    IF ms = << >> THEN << >>
    ELSE InsertByTimestamp(SortByTimestamp(SubSeq(ms, 1, Len(ms) - 1)), ms[Len(ms)])

\* Variant: the window is the ten oldest meetings
SliceFirst10(s) == SubSeq(s, 1, Min(10, Len(s)))

\* .slice(-10)
SliceLast10(s) == SubSeq(s, Max(1, Len(s) - 9), Len(s))

\* Variant: the filter on friendId is lost
friendMeetingsOfAll(friend, ms) ==
    SliceLast10(SortByTimestamp(ms))

friendMeetings(friend, ms) ==
    SliceLast10(SortByTimestamp(MeetingsOf(ms, friend.id)))

\* The whole days between consecutive meetings
Gaps(fm) ==
    [i \in 1..(Len(fm) - 1) |->
        (fm[i + 1].timestamp - fm[i].timestamp) \div MS_PER_DAY]

\* Array.prototype.reduce; each step's accumulator is a value before the
\* next step starts
RECURSIVE Reduce(_, _, _)
Reduce(F(_, _), s, acc) ==
    IF s = << >> THEN acc
    ELSE CHOOSE result \in {Reduce(F, Tail(s), next) : next \in {F(acc, Head(s))}} : TRUE

AvgGap(gaps) ==
    FDiv(Reduce(LAMBDA a, b : FAdd(a, Num(b)), gaps, Num(0)), Num(Len(gaps)))

Variance(gaps, avgGap) ==
    FDiv(Reduce(LAMBDA sum, gap :
                    FAdd(sum, FMul(FSub(Num(gap), avgGap), FSub(Num(gap), avgGap))),
                gaps, Num(0)),
         Num(Len(gaps)))

Consistency(gaps, avgGap) ==
    FMax(Num(0),
         FSub(Num(100),
              FMul(FDiv(Variance(gaps, avgGap), FMax(avgGap, Num(1))), Num(50))))

\* Variant: the cap of Math.min is lost
StreakStabilityUncapped(friend) == Num(friend.streakCount * 3)

StreakStability(friend) == FMin(Num(friend.streakCount * 3), Num(30))

GapScore(friend, avgGap) ==
    FMax(Num(0),
         FSub(Num(100),
              FMul(FDiv(FAbs(FSub(avgGap, Num(friend.cadenceDays))),
                        Num(friend.cadenceDays)),
                   Num(100))))

\* (friend.multiplier - 1) * 10, the multiplier being kept in tenths
MultiplierBonus(friend) ==
    FMul(FSub(Frac(friend.multiplier, MULTIPLIER_BASE), Num(1)), Num(10))

\* Lines 173-178, avgGap being computed already
WeightedScore(friend, gaps, avgGap) ==
    FRound(FAdd(FAdd(FAdd(FMul(Consistency(gaps, avgGap), Frac(4, 10)),
                          FMul(StreakStability(friend), Frac(3, 10))),
                     FMul(GapScore(friend, avgGap), Frac(2, 10))),
                MultiplierBonus(friend)))

\* Lines 169-178, friendMeetings being computed already
GapsScore(friend, gaps) ==
    CHOOSE score \in {WeightedScore(friend, gaps, avgGap) :
                         avgGap \in {AvgGap(gaps)}} : TRUE

\* Lines 168-178, friendMeetings being computed already
WindowScore(friend, fm) ==
    IF Len(fm) < 2 THEN 50
    ELSE CHOOSE score \in {GapsScore(friend, gaps) : gaps \in {Gaps(fm)}} : TRUE

\* Variant: the early return on friend.totalMeetings is lost
calculateHealthScoreUncounted(friend, ms) ==
    CHOOSE score \in {WindowScore(friend, fm) : fm \in {friendMeetings(friend, ms)}} :
        TRUE

calculateHealthScore(friend, ms) ==
    IF friend.totalMeetings < 2 THEN 50
    ELSE CHOOSE score \in {WindowScore(friend, fm) :
                               fm \in {friendMeetings(friend, ms)}} : TRUE

----------------------------------------------------------------------------
(* Settings, restart and the storage the browser provides *)

\* The Appearance buttons of the settings screen
setTheme(opt) ==
    /\ Idle
    /\ settings' = Merge(settings, [theme |-> opt])
    /\ UNCHANGED <<friends, meetings, toasts, importData, currentModal,
                   modalError, now, nextFriendId, nextMeetingId, errorToast,
                   backup, render, storageFails, replaced>>
    /\ PersistenceEffect

\* The page is loaded again: every useState starts from its initial value,
\* appState from its initialiser, and the effects of the first commit run
Reload ==
    /\ friends' = InitialAppState(stored).friends
    /\ meetings' = InitialAppState(stored).meetings
    /\ settings' = InitialAppState(stored).settings
    /\ toasts' = << >>
    /\ importData' = NoImport
    /\ currentModal' = "none"
    /\ modalError' = NO_ERROR
    /\ errorToast' = ""
    /\ render' = NoRender
    /\ replaced' = FALSE
    /\ UNCHANGED <<now, nextFriendId, nextMeetingId, backup, storageFails>>
    /\ PersistenceEffect

\* The quota is exhausted or the browser denies storage, and the reverse
StorageDenied ==
    /\ ~storageFails
    /\ storageFails' = TRUE
    /\ UNCHANGED <<friends, meetings, settings, toasts, importData, currentModal,
                   modalError, now, nextFriendId, nextMeetingId, errorToast,
                   backup, render, stored, replaced>>

StorageRestored ==
    /\ storageFails
    /\ storageFails' = FALSE
    /\ UNCHANGED <<friends, meetings, settings, toasts, importData, currentModal,
                   modalError, now, nextFriendId, nextMeetingId, errorToast,
                   backup, render, stored, replaced>>

\* The site data is cleared, or the item is left unparseable, from outside
\* the application
StorageDamaged(item) ==
    /\ stored # item
    /\ stored' = item
    /\ UNCHANGED <<friends, meetings, settings, toasts, importData, currentModal,
                   modalError, now, nextFriendId, nextMeetingId, errorToast,
                   backup, render, storageFails, replaced>>

NextPersist ==
    \/ handleOnboardingComplete
    \/ OpenAddFriend
    \/ CloseAddFriend
    \/ handleAddFriend(PersistFriendIds, <<"A">>, "close", 1)
    \/ \E f \in Range(friends) : handleEditFriend(f.id, <<"B">>, "casual", 2)
    \/ \E f \in Range(friends) :
          handleLogMeeting(PersistMeetingIds, f.id, <<"o", "k">>)
    \/ \E f \in Range(friends) : handleQuickLogWithoutNote(PersistMeetingIds, f.id)
    \/ \E f \in Range(friends) : handleDeleteFriend(PersistToasts, f.id)
    \/ \E i \in 1..Len(toasts) : UndoDelete(i)
    \/ ExpireToast
    \/ /\ toasts = << >>
       /\ handleImportFile([size |-> 100,
                            data |-> FileData(<<FileFriend(100, 1, 0, 10)>>,
                                              <<FileMeeting(200, 100)>>)])
    \/ confirmImport
    \/ cancelImport
    \/ handleResetData
    \/ setTheme("dark")
    \/ Reload
    \/ toasts = << >> /\ currentModal = "none" /\ meetings = << >> /\ StorageDenied
    \/ toasts = << >> /\ currentModal = "none" /\ StorageRestored
    \/ \E item \in {NoItem, JSyntaxError} :
          /\ toasts = << >> /\ currentModal = "none" /\ meetings = << >>
          /\ StorageDamaged(item)

SpecPersist == Init /\ [][NextPersist]_vars

----------------------------------------------------------------------------
(* Rejection reasons: the candidates of every shape, and files that are    *)
(* wrong in more than one way.                                             *)

BadFriend == JObjOf([id |-> JNum(7), name |-> JStr(<<"Z">>), cadenceDays |-> JNum(1)],
                    FileFriendRest)

BadMeeting == FileMeetingOrphan(200)

MixedFiles ==
    { [size |-> MAX_IMPORT_BYTES + 1, data |-> JSyntaxError],
      [size |-> MAX_IMPORT_BYTES + 1, data |-> JNull],
      [size |-> MAX_IMPORT_BYTES + 1, data |-> FileData(<<BadFriend>>, << >>)],
      [size |-> MAX_IMPORT_BYTES, data |-> FileData(<<FileFriend(100, 1, 0, 10)>>, << >>)],
      [size |-> 100,
       data |-> JObjOf([friends |-> JArr(<<BadFriend>>), meetings |-> JArr(<< >>)],
                       [version |-> JStr(<<"4">>), exportedAt |-> JNum(T0)])],
      [size |-> 100,
       data |-> JObjOf([friends |-> JArr(<<BadFriend>>), settings |-> FileSettings],
                       [version |-> JStr(<<"4">>), exportedAt |-> JNum(T0)])],
      [size |-> 100, data |-> FileData(<<BadFriend>>, <<BadMeeting>>)],
      [size |-> 100, data |-> FileData(<<FileFriend(100, 1, 0, 10)>>, <<BadMeeting>>)] }

ReasonFiles == CandidateFiles \cup MixedFiles

NextReasons ==
    \/ handleOnboardingComplete
    \/ \E file \in ReasonFiles : handleImportFile(file)
    \/ confirmImport
    \/ cancelImport

SpecReasons == Init /\ [][NextReasons]_vars

----------------------------------------------------------------------------
(* Batches: one friend with a cadence of 1 day is logged by single clicks  *)
(* and by two clicks that reach the handlers inside one batch.             *)

NextBatch ==
    \/ handleOnboardingComplete
    \/ OpenAddFriend
    \/ CloseAddFriend
    \/ handleAddFriend(BatchFriendIds, <<"A">>, "close", 1)
    \/ \E f \in Range(friends) : handleQuickLogWithoutNote(BatchMeetingIds, f.id)
    \/ \E f \in Range(friends) : BatchedQuickLogs(BatchMeetingIds, f.id)
    \/ Tick(1, BatchMaxNow)

SpecBatch == Init /\ [][NextBatch]_vars

----------------------------------------------------------------------------
(* Onboarding: after the onboarding, a friend is added, edited, logged,    *)
(* deleted and put back, the theme is changed, the data are reset and      *)
(* the backups that are accepted, with every kind of settings, are         *)
(* imported.                                                               *)

OnboardFiles ==
    {file \in
        {[size |-> 100,
          data |-> JObjOf([friends |-> JArr(<<FileFriend(100, 1, 0, 10)>>),
                           meetings |-> JArr(<< >>), settings |-> st],
                          [version |-> JStr(<<"4">>), exportedAt |-> JNum(T0)])] :
            st \in SettingsValues} :
        ImportOutcome(file) = "accepted"}

NextOnboard ==
    \/ handleOnboardingComplete
    \/ OpenAddFriend
    \/ CloseAddFriend
    \/ handleAddFriend(OnboardFriendIds, <<"A">>, "close", 1)
    \/ \E f \in Range(friends) : handleEditFriend(f.id, <<"B">>, "casual", 2)
    \/ \E f \in Range(friends) :
          handleLogMeeting(OnboardMeetingIds, f.id, <<" ">>)
    \/ \E f \in Range(friends) : handleQuickLogWithoutNote(OnboardMeetingIds, f.id)
    \/ \E f \in Range(friends) : handleDeleteFriend(OnboardToasts, f.id)
    \/ \E i \in 1..Len(toasts) : UndoDelete(i)
    \/ ExpireToast
    \/ setTheme("light")
    \* a backup is picked while no Undo toast is pending
    \/ \E file \in OnboardFiles : toasts = << >> /\ handleImportFile(file)
    \/ confirmImport
    \/ cancelImport
    \/ handleResetData

SpecOnboard == Init /\ [][NextOnboard]_vars

----------------------------------------------------------------------------
(* Notes after a quick log (v4.4.0): one friend is logged from its card    *)
(* and the toast's 'Add note' is taken up, with the note "ok", or left to  *)
(* expire.                                                                 *)

NextNote ==
    \/ handleOnboardingComplete
    \/ OpenAddFriend
    \/ CloseAddFriend
    \/ handleAddFriend(NoteFriendIds, <<"A">>, "close", 1)
    \/ \E f \in Range(friends) :
          handleQuickLogRequest(NoteMeetingIds, NoteToasts, f.id)
    \/ \E i \in 1..Len(toasts) : AddNoteThenSave(NoteMeetingIds, i, <<"o", "k">>)
    \/ ExpireToast
    \/ Tick(1, NoteMaxNow)

SpecNote == Init /\ [][NextNote]_vars

----------------------------------------------------------------------------
(* Editing at the limit: friends are added up to the limit; the oldest and *)
(* the tenth are logged and edited to "B", casual, 2 days.                 *)

EditTargets == {1, FRIEND_LIMIT}

NextEdit ==
    \/ handleOnboardingComplete
    \/ OpenAddFriend
    \/ CloseAddFriend
    \/ handleAddFriend(EditFriendIds, <<"A">>, "close", 1)
    \/ \E fid \in EditTargets : handleEditFriend(fid, <<"B">>, "casual", 2)
    \/ \E fid \in EditTargets : handleQuickLogWithoutNote(EditMeetingIds, fid)
    \/ Tick(1, EditMaxNow)

SpecEdit == Init /\ [][NextEdit]_vars

----------------------------------------------------------------------------
(* History: friends with a cadence of 1 day are added, edited to 2 days,   *)
(* logged, deleted and put back while the clock runs in half-day steps and *)
(* in one step of two days, long enough for a streak to break.  The log   *)
(* modal is saved with a blank note.                                       *)

NextHistory ==
    \/ handleOnboardingComplete
    \/ OpenAddFriend
    \/ CloseAddFriend
    \/ handleAddFriend(HistoryFriendIds, <<"A">>, "close", 1)
    \/ \E f \in Range(friends) : handleEditFriend(f.id, <<"B">>, "casual", 2)
    \/ \E f \in Range(friends) :
          handleLogMeeting(HistoryMeetingIds, f.id, <<" ">>)
    \/ \E f \in Range(friends) : handleQuickLogWithoutNote(HistoryMeetingIds, f.id)
    \/ \E f \in Range(friends) : handleDeleteFriend(HistoryToasts, f.id)
    \/ \E i \in 1..Len(toasts) : UndoDelete(i)
    \/ ExpireToast
    \/ Tick(1, HistoryMaxNow)
    \/ Tick(2 * MS_PER_DAY, HistoryMaxNow + 2 * MS_PER_DAY)

SpecHistory == Init /\ [][NextHistory]_vars

----------------------------------------------------------------------------
(* Cadence: a friend is added and edited with the cadence typed into the   *)
(* field or picked from the presets, and backups with a cadence of 1, of 0 *)
(* and of half a day are imported.                                         *)

CadenceTexts ==
    { << >>, <<"0">>, <<"5">>, <<"1", ".", "5">>, <<"0", ".", "5">>, <<"-", "3">>,
      <<"4", "0", "0">>, <<"a">>, <<" ", "7", "x">> }

CadenceFiles ==
    { [size |-> 100, data |-> FileData(<<FileFriend(100, 1, 0, 10)>>, << >>)],
      [size |-> 100, data |-> FileData(<<FileFriend(100, 0, 0, 10)>>, << >>)],
      [size |-> 100,
       data |-> FileData(<<JObjOf([id |-> JId(100), name |-> JStr(<<"Z">>),
                                   cadenceDays |-> JNumFrac(1, 2)],
                                  FileFriendRest)>>, << >>)] }

NextCadence ==
    \/ handleOnboardingComplete
    \/ OpenAddFriend
    \/ CloseAddFriend
    \/ \E value \in CadenceTexts, blurred \in BOOLEAN :
          handleAddFriend(CadenceFriendIds, <<"A">>, "close",
                          TypedCadence(DEFAULT_CADENCE, value, blurred))
    \/ \E preset \in presets :
          handleAddFriend(CadenceFriendIds, <<"A">>, "close", preset)
    \/ \E i \in 1..Len(friends), value \in CadenceTexts, blurred \in BOOLEAN :
          handleEditFriend(friends[i].id, <<"B">>, "casual",
                           TypedCadence(friends[i].cadenceDays, value, blurred))
    \/ \E i \in 1..Len(friends), preset \in presets :
          handleEditFriend(friends[i].id, <<"B">>, "casual", preset)
    \/ \E file \in CadenceFiles : handleImportFile(file)
    \/ confirmImport
    \/ cancelImport

SpecCadence == Init /\ [][NextCadence]_vars

----------------------------------------------------------------------------
(* Meetings: a backup holding friend 100 and one of their meetings is      *)
(* imported next to adding, editing, logging, deleting, undoing and        *)
(* resetting.                                                              *)

MeetingFile ==
    [size |-> 100,
     data |-> FileData(<<FileFriend(100, 1, 0, 10)>>, <<FileMeeting(200, 100)>>)]

NextAppend ==
    \/ handleOnboardingComplete
    \/ OpenAddFriend
    \/ CloseAddFriend
    \/ handleAddFriend(AppendFriendIds, <<"A">>, "close", 1)
    \/ \E f \in Range(friends) : handleEditFriend(f.id, <<"B">>, "casual", 2)
    \/ \E f \in Range(friends) :
          handleLogMeeting(AppendMeetingIds, f.id, <<"o", "k">>)
    \/ \E f \in Range(friends) : handleQuickLogWithoutNote(AppendMeetingIds, f.id)
    \/ \E f \in Range(friends) : handleDeleteFriend(AppendToasts, f.id)
    \/ \E i \in 1..Len(toasts) : UndoDelete(i)
    \/ ExpireToast
    \* the backup is picked while no Undo toast is pending
    \/ toasts = << >> /\ handleImportFile(MeetingFile)
    \/ confirmImport
    \/ cancelImport
    \/ handleResetData

SpecAppend == Init /\ [][NextAppend]_vars

----------------------------------------------------------------------------
(* The aggregates of the dashboard and of the Insights tab, as functions   *)
(* of the snapshot and of the clock.                                       *)

overallHealth(fs, ms, t) ==
    LET active == activeFriends(fs, t)
        sum == Reduce(LAMBDA acc, f : acc + calculateHealthScore(f, ms), active, 0)
    IN IF Len(active) > 0 THEN FRound(Frac(sum, Len(active))) ELSE 0

WEEK == 7 * MS_PER_DAY

\* weeklyData[3 - i].count
weeklyCount(ms, t, i) ==
    Len(Filter(ms, LAMBDA m : /\ m.timestamp >= t - (i + 1) * WEEK
                              /\ m.timestamp < t - i * WEEK))

\* The Insights tab's totalMeetings
InsightsTotalMeetings(ms) == Len(ms)

longestStreak(fs, t) ==
    Reduce(LAMBDA acc, f : Max(acc, f.streakCount), activeFriends(fs, t), 0)

\* One friend's share of avgAdherence
Adherence(f, t) ==
    IF ~Truthy(f.lastMeetingDate) \/ f.totalMeetings < 1 THEN Num(100)
    ELSE LET elapsed == Frac(t - f.lastMeetingDate, MS_PER_DAY)
             ratio == FMin(Num(1), FDiv(Num(f.cadenceDays), FMax(elapsed, Num(1))))
         IN FMul(ratio, Num(100))

avgAdherence(fs, t) ==
    LET active == activeFriends(fs, t)
        sum == Reduce(LAMBDA acc, f : FAdd(acc, Adherence(f, t)), active, Num(0))
    IN IF Len(active) > 0 THEN FRound(FDiv(sum, Num(Len(active)))) ELSE 0

----------------------------------------------------------------------------
(* Insights: a friend is added and logged, a backup holding an archived    *)
(* friend with two meetings and an active friend with one is imported,     *)
(* and the clock runs on for two weeks.                                    *)

ArchiveFile ==
    [size |-> 100,
     data |-> FileData(<<FileFriendArchived(100, 1, 5), FileFriendCounted(101, 1, 1)>>,
                       <<FileMeetingAt(200, 100, T0), FileMeetingAt(201, 100, T0),
                         FileMeetingAt(202, 101, T0)>>)]

NextInsights ==
    \/ handleOnboardingComplete
    \/ OpenAddFriend
    \/ CloseAddFriend
    \/ handleAddFriend(InsightsFriendIds, <<"A">>, "close", 1)
    \/ \E f \in Range(friends) : handleQuickLogWithoutNote(InsightsMeetingIds, f.id)
    \/ handleImportFile(ArchiveFile)
    \/ confirmImport
    \/ cancelImport
    \/ Tick(7, InsightsMaxNow)

SpecInsights == Init /\ [][NextInsights]_vars

----------------------------------------------------------------------------
(* Health: the application starts from the snapshot an earlier session     *)
(* left in localStorage.  In that session one friend was added at T0 and   *)
(* logged k times, the gaps between the logs alternating between g1 and    *)
(* g2 half-days.  In this session the friend is logged again, the clock    *)
(* advances and a backup whose counters disagree with its meeting list is  *)
(* imported.                                                               *)

HealthCadences == {1, 2}

HealthFriend(c) ==
    NewFriend(1, [name |-> <<"A">>, relationshipTier |-> "close", cadenceDays |-> c], T0)

GapBefore(i, g1, g2) == IF i % 2 = 1 THEN g1 ELSE g2

RECURSIVE Session(_, _, _, _, _, _)
Session(fs, ms, t, i, k, g) ==
    IF i > k THEN [friends |-> fs, meetings |-> ms, now |-> t]
    ELSE Session(LoggedFriends(fs, fs[1], t + GapBefore(i, g[1], g[2])),
                 Append(ms, NewMeeting(i, 1, t + GapBefore(i, g[1], g[2]), << >>)),
                 t + GapBefore(i, g[1], g[2]), i + 1, k, g)

StoredSnapshots ==
    { Session(<<HealthFriend(c)>>, << >>, T0, 1, k, <<g1, g2>>) :
        c \in HealthCadences, k \in 0..HealthMeetings,
        g1 \in 0..HealthMaxGap, g2 \in 0..HealthMaxGap }

HealthStart == T0 + HealthMeetings * HealthMaxGap

HealthFiles ==
    { [size |-> 100,
       data |-> FileData(<<FileFriendCounted(100, 1, 0)>>,
                         <<FileMeetingAt(201, 100, T0 + 2 * MS_PER_DAY),
                           FileMeetingAt(200, 100, T0)>>)],
      [size |-> 100,
       data |-> FileData(<<FileFriendCounted(100, 1, 5)>>,
                         <<FileMeetingAt(200, 100, T0)>>)],
      [size |-> 100,
       data |-> FileData(<<FileFriendCounted(100, 1, 3)>>,
                         <<FileMeetingAt(202, 100, T0 + 3 * MS_PER_DAY),
                           FileMeetingAt(200, 100, T0),
                           FileMeetingAt(201, 100, T0 + MS_PER_DAY)>>)] }

InitHealth ==
    \E snap \in StoredSnapshots :
        /\ friends = snap.friends
        /\ meetings = snap.meetings
        /\ settings = [theme |-> "auto", hasCompletedOnboarding |-> TRUE]
        /\ toasts = << >>
        /\ importData = NoImport
        /\ currentModal = "none"
        /\ modalError = NO_ERROR
        /\ now = HealthStart
        /\ nextFriendId = 2
        /\ nextMeetingId = HealthMeetings + 1
        /\ errorToast = ""
        /\ backup = NoFile
        /\ render = NoRender
        /\ stored = Stringify(snap.friends, snap.meetings,
                              [theme |-> "auto", hasCompletedOnboarding |-> TRUE])
        /\ storageFails = FALSE
        /\ replaced = FALSE
    /\ replaced = FALSE

NextHealth ==
    \/ \E f \in Range(friends) :
          handleQuickLogWithoutNote(HealthMeetings + HealthLogs, f.id)
    \/ \E file \in HealthFiles : handleImportFile(file)
    \/ confirmImport
    \/ cancelImport
    \/ Tick(1, HealthStart + HealthTicks)

SpecHealth == InitHealth /\ [][NextHealth]_vars

\* The same sessions without the imports
NextScore ==
    \/ \E f \in Range(friends) :
          handleQuickLogWithoutNote(HealthMeetings + HealthLogs, f.id)
    \/ Tick(1, HealthStart + HealthTicks)

SpecScore == InitHealth /\ [][NextScore]_vars

----------------------------------------------------------------------------
(* Rendering a FriendCard: the colour is computed by one call, daysLeft by *)
(* the next; each call reads Date.now() itself.                            *)

FriendCardColor(fid) ==
    /\ Onboarded
    /\ render.phase # "color"
    /\ Selectable(fid)
    /\ render' = [phase |-> "color",
                  lastMeetingDate |-> Selected(fid).lastMeetingDate,
                  cadenceDays |-> Selected(fid).cadenceDays,
                  color |-> getTimerColor(Selected(fid).lastMeetingDate,
                                          Selected(fid).cadenceDays, now)]
    /\ UNCHANGED <<friends, meetings, settings, toasts, importData, currentModal,
                   modalError, now, nextFriendId, nextMeetingId, errorToast,
                   backup, stored,
                   storageFails, replaced>>

FriendCardDaysLeft ==
    /\ render.phase = "color"
    /\ render' = [phase |-> "done",
                  lastMeetingDate |-> render.lastMeetingDate,
                  cadenceDays |-> render.cadenceDays,
                  color |-> render.color,
                  daysLeft |-> getDaysUntilDue(render.lastMeetingDate,
                                               render.cadenceDays, now)]
    /\ UNCHANGED <<friends, meetings, settings, toasts, importData, currentModal,
                   modalError, now, nextFriendId, nextMeetingId, errorToast,
                   backup, stored,
                   storageFails, replaced>>

\* No event handler runs while a component function is executing
Rendering == render.phase = "color"

NextRender ==
    \/ ~Rendering /\ handleOnboardingComplete
    \/ ~Rendering /\ OpenAddFriend
    \/ ~Rendering /\ CloseAddFriend
    \/ ~Rendering /\ handleAddFriend(RenderFriendIds, <<"A">>, "close", 1)
    \/ \E f \in Range(friends) :
          ~Rendering /\ handleQuickLogWithoutNote(RenderMeetingIds, f.id)
    \/ \E f \in Range(friends) : FriendCardColor(f.id)
    \/ FriendCardDaysLeft
    \/ Tick(1, RenderMaxNow)

SpecRender == Init /\ [][NextRender]_vars

----------------------------------------------------------------------------
(* Timers: one friend with a cadence of 1 or 5 days is logged once and the *)
(* clock runs on in half-days for six days.                                *)

TimerCadences == {1, 5}

NextTimer ==
    \/ handleOnboardingComplete
    \/ OpenAddFriend
    \/ CloseAddFriend
    \/ \E c \in TimerCadences : handleAddFriend(TimerFriendIds, <<"A">>, "close", c)
    \/ \E f \in Range(friends) : handleQuickLogWithoutNote(TimerMeetingIds, f.id)
    \/ Tick(1, TimerMaxNow)

SpecTimer == Init /\ [][NextTimer]_vars

----------------------------------------------------------------------------
(* Round trip: the snapshot is exported and the downloaded file imported.  *)

ExportNames == {<<"A">>, <<LongRun>>}

NextExport ==
    \/ handleOnboardingComplete
    \/ OpenAddFriend
    \/ CloseAddFriend
    \/ \E n \in ExportNames : handleAddFriend(ExportFriendIds, n, "close", 1)
    \/ \E f \in Range(friends) : handleEditFriend(f.id, <<"B">>, "casual", 2)
    \/ \E f \in Range(friends) :
          handleLogMeeting(ExportMeetingIds, f.id, <<"o", "k">>)
    \/ \E f \in Range(friends) : handleQuickLogWithoutNote(ExportMeetingIds, f.id)
    \/ \E f \in Range(friends) : handleDeleteFriend(ExportToasts, f.id)
    \/ \E i \in 1..Len(toasts) : UndoDelete(i)
    \/ ExpireToast
    \/ handleExport
    \* the downloaded file is picked while no Undo toast is pending
    \/ backup # NoFile /\ toasts = << >> /\ handleImportFile(backup)
    \/ confirmImport
    \/ cancelImport

SpecExport == Init /\ [][NextExport]_vars

----------------------------------------------------------------------------
(* The validator: candidates of every shape are picked, then confirmed or  *)
(* cancelled.                                                              *)

NextValidate ==
    \/ handleOnboardingComplete
    \/ \E file \in CandidateFiles : handleImportFile(file)
    \/ confirmImport
    \/ cancelImport

SpecValidate == Init /\ [][NextValidate]_vars

----------------------------------------------------------------------------
(* Properties *)

\* This step appended exactly one Meeting and kept the list of friends in place:
\* a log-meeting action; its Meeting is LoggedMeeting.
LogStep ==
    /\ Len(meetings') = Len(meetings) + 1
    /\ SubSeq(meetings', 1, Len(meetings)) = meetings
    /\ Len(friends') = Len(friends)
    /\ \A i \in 1..Len(friends) : friends'[i].id = friends[i].id

LoggedMeeting == meetings'[Len(meetings')]

\* The streak rule as the specification words it, from friend f before the log
\* to friend g after it, logged at time t
StreakRule(f, g, t) ==
    /\ f.lastMeetingDate = Null => g.streakCount = 1
    /\ f.lastMeetingDate # Null /\ (t - f.lastMeetingDate) \div MS_PER_DAY <= f.cadenceDays
          => g.streakCount = f.streakCount + 1
    /\ f.lastMeetingDate # Null /\ (t - f.lastMeetingDate) \div MS_PER_DAY > f.cadenceDays
          => g.streakCount = 1

\* The scenario of cadence 14: logs at t0, t0 + 10 days, t0 + 30 days
FortnightRule(f, g, t) ==
    f.cadenceDays = 14 =>
      /\ f.lastMeetingDate = Null => g.streakCount = 1 /\ g.multiplier = 11
      /\ f.lastMeetingDate # Null /\ f.streakCount = 1
            /\ t - f.lastMeetingDate = 10 * MS_PER_DAY
            => g.streakCount = 2 /\ g.multiplier = 12
      /\ f.lastMeetingDate # Null /\ f.streakCount = 2
            /\ t - f.lastMeetingDate = 20 * MS_PER_DAY
            => g.streakCount = 1 /\ g.multiplier = 11

\* C1: a log-meeting action at time now on friend f sets streakCount to 1 when f
\* had no meeting, to streakCount + 1 when floor((now - lastMeetingDate) / day)
\* <= cadenceDays (boundary included) and to 1 when it is greater; with cadence
\* 14 and logs at t0, t0 + 10 d, t0 + 30 d the streak runs 1, 2, 1 and the
\* multiplier 1.1, 1.2, 1.1.
C1_StreakTransition ==
    [][LogStep =>
        \A i \in 1..Len(friends) :
            friends[i].id = LoggedMeeting.friendId =>
                /\ StreakRule(friends[i], friends'[i], now)
                /\ FortnightRule(friends[i], friends'[i], now)]_vars

\* C1 witness: the third log of the cadence-14 scenario has been made
C1_Witness ==
    /\ Len(meetings) = 3
    /\ meetings[2].timestamp - meetings[1].timestamp = 10 * MS_PER_DAY
    /\ meetings[3].timestamp - meetings[2].timestamp = 20 * MS_PER_DAY
    /\ Len(friends) = 1
    /\ friends[1].cadenceDays = 14
    /\ friends[1].createdAt = meetings[1].timestamp
    /\ friends[1].updatedAt = meetings[3].timestamp
    /\ friends[1].streakCount = 1
    /\ friends[1].multiplier = 11
    /\ friends[1].totalMeetings = 3

\* C2: after every sequence of log-meeting actions on friends created by
\* handleAddFriend, multiplier = min(3.0, 1.0 + 0.1 * streakCount); it lies in
\* [1.0, 3.0] and is exactly 3.0 once streakCount >= 20.
C2_MultiplierDerived ==
    \A i \in 1..Len(friends) :
        LET f == friends[i] IN
        /\ f.multiplier = (IF 10 + f.streakCount > 30 THEN 30 ELSE 10 + f.streakCount)
        /\ f.multiplier >= 10 /\ f.multiplier <= 30
        /\ f.streakCount >= 20 => f.multiplier = 30

\* C2 witness: a streak beyond 20 with the multiplier at its cap
C2_Witness ==
    \E i \in 1..Len(friends) :
        friends[i].streakCount = 21 /\ friends[i].multiplier = 30

\* The multiplier that the streak s derives
Derived(s) == IF s >= 20 THEN 30 ELSE 10 + s

\* C3: in every reachable snapshot, after any mutation (add, edit, log, delete,
\* undo, reset, confirmed import of a validated candidate), every friend has
\* multiplier = min(3.0, 1.0 + 0.1 * streakCount).
C3_MultiplierDerivedAlways ==
    \A i \in 1..Len(friends) : friends[i].multiplier = Derived(friends[i].streakCount)

\* Some log handler of Spec runs in this step
HandlerLogStep ==
    \E f \in Range(friends) :
        \/ handleLogMeeting(MaxMeetingIds, f.id, <<" ">>)
        \/ handleQuickLogWithoutNote(MaxMeetingIds, f.id)

\* C4: a log-meeting action on friend f at time now gives totalMeetings + 1 and
\* lastMeetingDate = now, appends exactly one Meeting with friendId = f.id and
\* timestamp = now, and leaves every other friend unchanged.
C4_LogCountsAndFrames ==
    [][/\ HandlerLogStep => LogStep
       /\ LogStep =>
            /\ LoggedMeeting.timestamp = now
            /\ \E i \in 1..Len(friends) : friends[i].id = LoggedMeeting.friendId
            /\ \A i \in 1..Len(friends) :
                IF friends[i].id = LoggedMeeting.friendId
                THEN /\ friends'[i].totalMeetings = friends[i].totalMeetings + 1
                     /\ friends'[i].lastMeetingDate = now
                ELSE friends'[i] = friends[i]]_vars

\* C4 witness: one of two friends has been logged twice, the other never
C4_Witness ==
    /\ Len(friends) = 2
    /\ Len(meetings) = 2
    /\ friends[1].totalMeetings = 2
    /\ friends[1].lastMeetingDate = now
    /\ friends[2].totalMeetings = 0
    /\ friends[2].lastMeetingDate = Null

OwnMeetings(ms, fid) == Cardinality({k \in 1..Len(ms) : ms[k].friendId = fid})

\* C5: the log update is one atomic transition: no step changes a friend's
\* totalMeetings or appends a Meeting of the friend without rewriting the
\* friend's streakCount, multiplier and lastMeetingDate by the rule, nor the
\* reverse.
C5_LogAtomic ==
    [][\A i \in 1..Len(friends) : \A j \in 1..Len(friends') :
          friends'[j].id = friends[i].id =>
            LET f == friends[i]
                g == friends'[j]
                own == OwnMeetings(meetings, f.id)
                ownAfter == OwnMeetings(meetings', f.id)
            IN  \/ /\ g.totalMeetings = f.totalMeetings
                   /\ ownAfter = own
                   /\ g.streakCount = f.streakCount
                   /\ g.multiplier = f.multiplier
                   /\ g.lastMeetingDate = f.lastMeetingDate
                \/ /\ g.totalMeetings = f.totalMeetings + 1
                   /\ ownAfter = own + 1
                   /\ StreakRule(f, g, now)
                   /\ g.multiplier = Derived(g.streakCount)
                   /\ g.lastMeetingDate = now]_vars

\* C5 witness: a friend logged twice, both halves of each update in place
C5_Witness ==
    \E i \in 1..Len(friends) :
        /\ friends[i].totalMeetings = 2
        /\ friends[i].streakCount = 2
        /\ friends[i].multiplier = 12
        /\ OwnMeetings(meetings, friends[i].id) = 2

ActiveCount == Cardinality({i \in 1..Len(friends) : ~friends[i].isArchived})

\* C6: from the empty snapshot, after any sequence of add, edit, log, delete,
\* undo and reset actions at most 10 friends have isArchived = false.
C6_AtMostTenActive == ActiveCount <= 10

Blank(name) == \A k \in 1..Len(name) : name[k] = " "

\* C7: adding a friend when 10 active friends exist, or with a name that is
\* empty after trimming, is rejected: friends, meetings and settings are
\* unchanged, no friend is created, and the reason names the cause.
C7_AddRejected ==
    [][\A n \in NameInputs :
          /\ handleAddFriend(CapFriendIds, n, "close", DEFAULT_CADENCE)
          /\ Blank(n) \/ ActiveCount >= 10
          => /\ UNCHANGED <<friends, meetings, settings, nextFriendId>>
             /\ modalError' = IF Blank(n) THEN "Name is required"
                              ELSE "Friend limit reached (10 max)"]_vars

\* C7 witness: an eleventh friend has been refused for capacity
C7_Witness ==
    /\ ActiveCount = 10
    /\ currentModal = "add-friend"
    /\ modalError = "Friend limit reached (10 max)"

\* C8: deleting friend f and then invoking that delete's undo restores f and its
\* meetings exactly: the friend set and the meeting set equal the sets before
\* the delete, field for field; an undo re-inserts what its toast holds.
C8_DeleteUndoRestores ==
    [][/\ \A f \in Range(friends) :
            handleDeleteFriend(MaxToasts, f.id) =>
                LET t == toasts'[Len(toasts')] IN
                /\ Range(UndoFriends(friends', t)) = Range(friends)
                /\ Range(UndoMeetings(meetings', t)) = Range(meetings)
                /\ Len(UndoFriends(friends', t)) = Len(friends)
                /\ Len(UndoMeetings(meetings', t)) = Len(meetings)
       /\ \A i \in 1..Len(toasts) :
            UndoDelete(i) =>
                /\ Range(friends') = Range(friends) \cup {toasts[i].friend}
                /\ Range(meetings') = Range(meetings) \cup Range(toasts[i].deletedMeetings)]_vars

\* C8 witness: the first friend, with a meeting, was deleted and restored behind
\* the second
C8_Witness ==
    /\ Len(friends) = 2
    /\ friends[1].id > friends[2].id
    /\ friends[2].totalMeetings = 1
    /\ friends[2].streakCount = 1
    /\ \E k \in 1..Len(meetings) : meetings[k].friendId = friends[2].id

\* C9: the undo buffer is single-slot: a second delete supersedes the first, so
\* at most one undo is available.
C9_SingleSlotUndo == Len(toasts) <= 1

\* C10: handleDeleteFriend on f removes f and every Meeting of f in the same
\* transition; every other friend and every other Meeting is unchanged.
C10_DeleteCascades ==
    [][\A f \in Range(friends) :
          handleDeleteFriend(MaxToasts, f.id) =>
            /\ \A j \in 1..Len(friends') : friends'[j].id # f.id
            /\ \A k \in 1..Len(meetings') : meetings'[k].friendId # f.id
            /\ Range(friends') = {x \in Range(friends) : x.id # f.id}
            /\ Range(meetings') = {m \in Range(meetings) : m.friendId # f.id}
            /\ Len(friends') = Len(friends) - 1
            /\ Len(meetings') = Len(meetings) - OwnMeetings(meetings, f.id)]_vars

\* C10 witness: a friend with a meeting has just been deleted while another
\* friend keeps its meeting
C10_Witness ==
    /\ Len(toasts) = 1
    /\ toasts[1].deletedMeetings # << >>
    /\ Len(friends) = 1
    /\ Len(meetings) = 1
    /\ meetings[1].friendId = friends[1].id
    /\ toasts[1].friend.id # friends[1].id

\* The file is one the claim lists: over 5 MB, not JSON, of the wrong
\* top-level shape, or holding a record without a field the validator reads
C11_Rejectable(file) ==
    \/ file.size > 5 * 1024 * 1024
    \/ file.data.t # "object"
    \/ {"friends", "meetings", "settings"} \ DOMAIN file.data.fields # {}
    \/ file.data.fields.friends.t # "array"
    \/ file.data.fields.meetings.t # "array"
    \/ \E i \in 1..Len(file.data.fields.friends.items) :
          LET f == file.data.fields.friends.items[i].fields IN
          \/ {"id", "name", "cadenceDays"} \ DOMAIN f # {}
          \/ f.cadenceDays.n <= 0
    \/ \E i \in 1..Len(file.data.fields.meetings.items) :
          {"id", "friendId", "timestamp"}
              \ DOMAIN file.data.fields.meetings.items[i].fields # {}

\* C11: a rejected import (file over 5 MB, unparseable text, wrong top-level
\* shape, or a record failing field validation such as a Meeting missing
\* friendId) leaves friends, meetings and settings as they were and stores no
\* import candidate.
C11_RejectedImportFrame ==
    [][\A file \in ImportFiles :
          handleImportFile(file) /\ C11_Rejectable(file) =>
            /\ friends' = friends
            /\ meetings' = meetings
            /\ settings' = settings
            /\ importData' = NoImport
            /\ currentModal' = currentModal]_vars

\* C11 witness: a backup was refused for a bad record while a friend with a
\* meeting is in the snapshot
C11_Witness ==
    /\ errorToast = "Corrupted data in file"
    /\ importData = NoImport
    /\ Len(friends) = 1
    /\ Len(meetings) = 1
    /\ friends[1].id = 1

EmptyString(j) == j.t = "string" /\ (IF "id" \in DOMAIN j THEN j.id = 0 ELSE j.s = << >>)

\* C12: the validator accepts a candidate only if every friend has a non-empty
\* string id, a non-empty string name and a positive numeric cadenceDays, and
\* every meeting a non-empty string id, a non-empty string friendId and a
\* numeric timestamp.
C12_AcceptedRecordsWellFormed ==
    importData # NoImport =>
        /\ \A i \in 1..Len(importData.fields.friends.items) :
            LET f == importData.fields.friends.items[i] IN
            /\ Get(f, "id").t = "string" /\ ~EmptyString(Get(f, "id"))
            /\ Get(f, "name").t = "string" /\ ~EmptyString(Get(f, "name"))
            /\ Get(f, "cadenceDays").t = "number" /\ Get(f, "cadenceDays").n > 0
        /\ \A i \in 1..Len(importData.fields.meetings.items) :
            LET m == importData.fields.meetings.items[i] IN
            /\ Get(m, "id").t = "string" /\ ~EmptyString(Get(m, "id"))
            /\ Get(m, "friendId").t = "string" /\ ~EmptyString(Get(m, "friendId"))
            /\ Get(m, "timestamp").t = "number"

\* C13: the validator rejects every candidate whose top-level shape does not
\* have friends as a sequence, meetings as a sequence and settings as a record.
C13_AcceptedShape ==
    importData # NoImport =>
        /\ Get(importData, "friends").t = "array"
        /\ Get(importData, "meetings").t = "array"
        /\ Get(importData, "settings").t = "object"

\* The plain value of a field as JSON.parse delivers it
C14_Plain(v) ==
    IF "id" \in DOMAIN v THEN v.id ELSE IF "s" \in DOMAIN v THEN v.s ELSE v.n

\* The record equals the candidate's record: the tagged fields by their value,
\* every other field as it stands
C14_Same(rec, fields, tagged) ==
    /\ DOMAIN rec = DOMAIN fields
    /\ \A k \in DOMAIN fields :
          rec[k] = IF k \in tagged THEN C14_Plain(fields[k]) ELSE fields[k]

\* C14: confirmImport with an accepted candidate replaces the whole snapshot:
\* friends and meetings are the candidate's, settings the candidate's with
\* hasCompletedOnboarding = true, nothing of the prior snapshot survives; it
\* takes no step without a stored candidate.
C14_ImportReplaces ==
    [][confirmImport =>
        /\ importData # NoImport
        /\ LET c == importData.fields IN
           /\ Len(friends') = Len(c.friends.items)
           /\ \A i \in 1..Len(c.friends.items) :
                C14_Same(friends'[i], c.friends.items[i].fields,
                         {"id", "name", "cadenceDays"})
           /\ Len(meetings') = Len(c.meetings.items)
           /\ \A i \in 1..Len(c.meetings.items) :
                C14_Same(meetings'[i], c.meetings.items[i].fields,
                         {"id", "friendId", "timestamp"})
           /\ settings'.hasCompletedOnboarding = TRUE
           /\ DOMAIN settings' = DOMAIN c.settings.fields \cup {"hasCompletedOnboarding"}
           /\ \A k \in DOMAIN c.settings.fields \ {"hasCompletedOnboarding"} :
                settings'[k] = c.settings.fields[k]
        /\ importData' = NoImport]_vars

\* C14 witness: a friend and a meeting had been created; after the import only
\* the candidate's friend and settings are there
C14_Witness ==
    /\ nextFriendId = 2
    /\ nextMeetingId = 2
    /\ toasts = << >>
    /\ importData = NoImport
    /\ Len(friends) = 1
    /\ friends[1].id = 100
    /\ meetings = << >>
    /\ settings = [theme |-> "dark", hasCompletedOnboarding |-> TRUE]

\* C15: round trip: for every snapshot reachable by add, edit, log, delete and
\* undo, the bundle handleExport produced passes the import validator (and
\* confirming it gives back the exported friends and meetings).
C15_BackupReimports ==
    backup # NoFile => ImportOutcome(backup) = "accepted"

\* C16: getDaysUntilDue is negative if and only if getTimerColor returns
\* overdue (COLORS.attention), for every friend with a last meeting, a cadence
\* of at least one day and now >= lastMeeting, both evaluated at the same now.
C16_NegativeIffOverdue ==
    \A i \in 1..Len(friends) :
        LET f == friends[i] IN
        f.lastMeetingDate # Null /\ f.cadenceDays >= 1 /\ now >= f.lastMeetingDate =>
            (getDaysUntilDue(f.lastMeetingDate, f.cadenceDays, now) < 0
                <=> getTimerColor(f.lastMeetingDate, f.cadenceDays, now) = "attention")

\* C17: within one rendering of a friend the colour and daysUntilDue are
\* computed from one elapsedDays value sampled at a single instant (the clock is
\* not read again between the two computations), so no rendering pairs a fresh
\* status with a negative daysUntilDue even when the clock advances during the
\* render.
C17_RenderFromOneInstant ==
    render.phase = "done" =>
        /\ \E t \in 0..(RenderMaxNow + 1) :
              /\ render.color = getTimerColor(render.lastMeetingDate,
                                              render.cadenceDays, t)
              /\ render.daysLeft = getDaysUntilDue(render.lastMeetingDate,
                                                   render.cadenceDays, t)
        /\ ~(render.color = "fresh" /\ render.daysLeft < 0)

\* C18: getDaysUntilDue returns cadenceDays when lastMeeting is absent and
\* otherwise ceil(cadenceDays - elapsedDays), negative once the friend is
\* overdue by a full day or more, in every version of the source.
C18_CeilInEveryVersion ==
    \A i \in 1..Len(friends) :
        LET f == friends[i]
            expected ==
                IF f.lastMeetingDate = Null THEN f.cadenceDays
                ELSE CHOOSE d \in -TimerMaxNow..(f.cadenceDays + 1) :
                        /\ d * MS_PER_DAY >= f.cadenceDays * MS_PER_DAY - (now - f.lastMeetingDate)
                        /\ (d - 1) * MS_PER_DAY < f.cadenceDays * MS_PER_DAY - (now - f.lastMeetingDate)
        IN /\ getDaysUntilDue(f.lastMeetingDate, f.cadenceDays, now) = expected
           /\ getDaysUntilDue_v230(f.lastMeetingDate, f.cadenceDays, now) = expected
           /\ (now - f.lastMeetingDate >= (f.cadenceDays + 1) * MS_PER_DAY
                 /\ f.lastMeetingDate # Null => expected < 0)

\* C19: a friend with no meetings is never treated as due: it is not counted in
\* friendsNeedingAttention and not listed under "Needs attention", so the count
\* in the greeting equals the number of friends listed.
C19_CountMatchesList ==
    /\ friendsNeedingAttention(friends, now) = Len(overdue(friends, now))
    /\ \A i \in 1..Len(friends) :
          friends[i].lastMeetingDate = Null =>
              \A j \in 1..Len(overdue(friends, now)) :
                  overdue(friends, now)[j].id # friends[i].id

C21_NeutralScore ==
    \A i \in 1..Len(friends) :
        LET f == friends[i]
            own == {j \in 1..Len(meetings) : meetings[j].friendId = f.id}
        IN f.totalMeetings < 2 \/ Cardinality(own) < 2 =>
               calculateHealthScore(f, meetings) = 50

\* C21 witness: a friend whose counter says three or more meetings while the
\* list holds one, next to the score 50
C21_Witness ==
    \E i \in 1..Len(friends) :
        /\ friends[i].totalMeetings >= 2
        /\ Cardinality({j \in 1..Len(meetings) :
                           meetings[j].friendId = friends[i].id}) = 1
        /\ calculateHealthScore(friends[i], meetings) = 50

\* The timestamps of the friend's own meetings, the k-th smallest of them, and
\* the most recent ten (or fewer) in ascending order
C22_Own(f) == {j \in 1..Len(meetings) : meetings[j].friendId = f.id}

C22_Kth(f, k) ==
    CHOOSE v \in {meetings[j].timestamp : j \in C22_Own(f)} :
        /\ Cardinality({j \in C22_Own(f) : meetings[j].timestamp < v}) < k
        /\ k <= Cardinality({j \in C22_Own(f) : meetings[j].timestamp <= v})

\* The kept smallest-to-largest timestamps that end with the largest
RECURSIVE C22_Latest(_, _, _)
C22_Latest(f, total, kept) ==
    IF kept = 0 THEN << >>
    ELSE Append(C22_Latest(f, total - 1, kept - 1), C22_Kth(f, total))

C22_Window(f) ==
    C22_Latest(f, Cardinality(C22_Own(f)),
               IF Cardinality(C22_Own(f)) > 10 THEN 10 ELSE Cardinality(C22_Own(f)))

\* The whole days from the i-th to the (i+1)-th meeting of the window
C22_Gap(w, i) ==
    CHOOSE d \in 0..(w[i + 1] - w[i]) :
        /\ d * MS_PER_DAY <= w[i + 1] - w[i]
        /\ w[i + 1] - w[i] < (d + 1) * MS_PER_DAY

RECURSIVE C22_Sum(_, _, _)
C22_Sum(w, i, power) ==
    IF i = 0 THEN 0
    ELSE C22_Sum(w, i - 1, power)
         + (IF power = 2 THEN C22_Gap(w, i) * C22_Gap(w, i) ELSE C22_Gap(w, i))

\* r = round(0.4 consistency + 0.3 streakStability + 0.2 gapScore + bonus),
\* all terms brought to the common denominator 10 * vd * gd
C22_IsScore(f, r) ==
    \E w \in {C22_Window(f)} :
    LET n == Len(w) - 1
        gapSum == C22_Sum(w, n, 1)
        squareSum == C22_Sum(w, n, 2)
        \* variance / max(avgGap, 1) = vn / vd
        vn == n * squareSum - gapSum * gapSum
        vd == IF gapSum > n THEN n * gapSum ELSE n * n
        \* consistency = cn / vd
        cn == IF 100 * vd - 50 * vn > 0 THEN 100 * vd - 50 * vn ELSE 0
        streakStability == IF 3 * f.streakCount < 30 THEN 3 * f.streakCount ELSE 30
        \* gapScore = gn / gd
        gd == n * f.cadenceDays
        distance == IF gapSum > gd THEN gapSum - gd ELSE gd - gapSum
        gn == IF gd > distance THEN 100 * gd - 100 * distance ELSE 0
        \* multiplierBonus, the multiplier being in tenths
        bonus == f.multiplier - 10
        den == 10 * vd * gd
        num == 4 * cn * gd + 3 * streakStability * vd * gd + 2 * gn * vd
               + 10 * bonus * vd * gd
    IN /\ (2 * r - 1) * den <= 2 * num
       /\ 2 * num < (2 * r + 1) * den

\* C22: for a friend with totalMeetings >= 2 and at least two own meetings,
\* calculateHealthScore equals round(0.4*consistency + 0.3*streakStability
\* + 0.2*gapScore + multiplierBonus), the gaps being the floor-day differences
\* between consecutive meetings of the ten most recent own meetings sorted by
\* timestamp, consistency = max(0, 100 - variance/max(avgGap,1)*50),
\* streakStability = min(3*streakCount, 30), gapScore = max(0, 100 -
\* |avgGap - cadenceDays|/cadenceDays*100), multiplierBonus = (multiplier-1)*10.
C22_ScoreFormula ==
    \A i \in 1..Len(friends) :
        friends[i].totalMeetings >= 2 /\ Cardinality(C22_Own(friends[i])) >= 2 =>
            C22_IsScore(friends[i], calculateHealthScore(friends[i], meetings))

\* C22 witness: a friend with more than ten meetings at uneven gaps, whose
\* score is neither the neutral 50 nor the score of an even history
C22_Witness ==
    \E i \in 1..Len(friends) :
        /\ friends[i].totalMeetings >= 2
        /\ Cardinality(C22_Own(friends[i])) > 10
        /\ \E w \in {C22_Window(friends[i])} : C22_Gap(w, 1) # C22_Gap(w, 2)
        /\ calculateHealthScore(friends[i], meetings) \notin {50, 0}

\* The data-model invariants of a friend
C23_WellFormed(f) ==
    /\ f.streakCount >= 0
    /\ f.multiplier = Min(MULTIPLIER_CAP, MULTIPLIER_BASE + f.streakCount)
    /\ f.cadenceDays >= 1

\* Every term of the score is at its largest: the streak has reached the cap
\* of streakStability and of the multiplier, and the friend was met at exactly
\* its cadence throughout the window (variance 0, avgGap = cadenceDays)
C23_BestCase(f) ==
    /\ C23_WellFormed(f)
    /\ f.totalMeetings >= 2
    /\ f.streakCount >= 20
    /\ \E w \in {C22_Window(f)} :
          /\ Len(w) >= 2
          /\ \A j \in 1..(Len(w) - 1) : C22_Gap(w, j) = f.cadenceDays

\* C23: the health score can exceed 100 for a friend satisfying the data-model
\* invariants (streakCount >= 0, multiplier = min(3.0, 1.0 + 0.1*streakCount),
\* cadenceDays >= 1) with a perfectly consistent history.  The score grows with
\* each of its four terms, so if any such friend exceeds 100 then the friend
\* whose terms are all at their largest does.
C23_CanExceed100 ==
    \A i \in 1..Len(friends) :
        C23_BestCase(friends[i]) => calculateHealthScore(friends[i], meetings) > 100

\* C23 as amended: for every friend satisfying the data-model invariants
\* calculateHealthScore is at most 89 = 0.4*100 + 0.3*30 + 0.2*100 + 20.
C23_AtMost89 ==
    \A i \in 1..Len(friends) :
        C23_WellFormed(friends[i]) => calculateHealthScore(friends[i], meetings) <= 89

\* C23 witness: a friend on a streak of 20 or more, multiplier 3.0, met at
\* exactly its cadence, reaches 89
C23_Witness ==
    \E i \in 1..Len(friends) :
        /\ C23_BestCase(friends[i])
        /\ friends[i].multiplier = MULTIPLIER_CAP
        /\ calculateHealthScore(friends[i], meetings) = 89

\* A step that replaces the snapshot
C24_Mutation == <<friends, meetings, settings>>' # <<friends, meetings, settings>>

\* C24: a failing persistence write (localStorage.setItem throwing) never
\* crashes the application and never rolls back the in-memory snapshot, in
\* every version of the source: on every step that changes the snapshot while
\* setItem throws, the exception is swallowed by the effect of App.tsx and
\* part_001 and by the effect of part_000.
C24_FailedWriteSwallowed ==
    [][C24_Mutation /\ storageFails =>
          /\ PersistenceOutcome(storageFails) = "swallowed"
          /\ PersistenceOutcome_v230(storageFails) = "swallowed"
          /\ stored' = stored]_vars

\* The record is the stored record: the tagged fields by their value, every
\* other field as it stands, an undefined note not being stored
C25_SameRecord(rec, fields, tagged) ==
    /\ {k \in DOMAIN rec : ~(k = "note" /\ rec[k] = << >>)} = DOMAIN fields
    /\ \A k \in DOMAIN fields :
          IF k \in {"id", "friendId"} THEN rec[k] = fields[k].id
          ELSE IF k = "name" THEN rec[k] = fields[k].s
          ELSE IF k \in tagged THEN rec[k] = fields[k].n
          ELSE rec[k] = fields[k]

\* The item holds the complete snapshot
C25_Holds(item, fs, ms, st) ==
    /\ item # NoItem
    /\ item # JSyntaxError
    /\ Len(item.fields.friends.items) = Len(fs)
    /\ \A i \in 1..Len(fs) :
          C25_SameRecord(fs[i], item.fields.friends.items[i].fields, {"cadenceDays"})
    /\ Len(item.fields.meetings.items) = Len(ms)
    /\ \A i \in 1..Len(ms) :
          C25_SameRecord(ms[i], item.fields.meetings.items[i].fields, {"timestamp"})
    /\ item.fields.settings.fields = st

\* C25: write-through persistence: after every snapshot mutation whose save
\* succeeds the value stored under 'in-time-data' equals the complete
\* in-memory snapshot before the next action is processed; at startup the
\* snapshot is the stored value if it parses, otherwise the empty snapshot
\* with hasCompletedOnboarding = false.
C25_WriteThrough ==
    [][/\ C24_Mutation /\ ~storageFails =>
            C25_Holds(stored', friends', meetings', settings')
       /\ Reload =>
            IF stored = NoItem \/ stored = JSyntaxError
            THEN /\ friends' = << >>
                 /\ meetings' = << >>
                 /\ settings'.hasCompletedOnboarding = FALSE
            ELSE C25_Holds(stored, friends', meetings', settings')]_vars

\* C25 witness: an edited friend, a meeting with a note and the chosen theme
\* are in memory and in the store
C25_Witness ==
    /\ ~storageFails
    /\ Len(friends) = 1
    /\ Len(meetings) = 1
    /\ NoteOf(meetings[1]) = <<"o", "k">>
    /\ friends[1].name = <<"B">>
    /\ settings.theme = "dark"
    /\ C25_Holds(stored, friends, meetings, settings)

\* C26: every aggregate of the derived views (overall health, needs-attention
\* count, capacity count, Insights total-meetings count, weekly activity
\* counts, best streak, adherence) has the value it has on the snapshot
\* without its archived friends and without their meetings
C26_Active(fs) == Filter(fs, LAMBDA f : ~f.isArchived)

C26_MeetingsOfActive(fs, ms) ==
    Filter(ms, LAMBDA m : \E i \in 1..Len(fs) :
                             fs[i].id = m.friendId /\ ~fs[i].isArchived)

C26_DashboardExcludes ==
    LET fs == C26_Active(friends)
        ms == C26_MeetingsOfActive(friends, meetings)
    IN /\ overallHealth(friends, meetings, now) = overallHealth(fs, ms, now)
       /\ friendsNeedingAttention(friends, now) = friendsNeedingAttention(fs, now)
       /\ ActiveFriendCount(friends) = Len(fs)
       /\ longestStreak(friends, now) = longestStreak(fs, now)
       /\ avgAdherence(friends, now) = avgAdherence(fs, now)

C26_InsightsExcludes ==
    LET ms == C26_MeetingsOfActive(friends, meetings)
    IN /\ InsightsTotalMeetings(meetings) = InsightsTotalMeetings(ms)
       /\ \A i \in 0..3 : weeklyCount(meetings, now, i) = weeklyCount(ms, now, i)

C26_AggregatesExcludeArchived == C26_DashboardExcludes /\ C26_InsightsExcludes

\* The step kinds, told apart by what only they change: a log action draws
\* a meeting id, a delete queues an Undo toast, a reset empties the snapshot
\* from the idle screen, an import closes the confirmation modal
C27_LogStep == nextMeetingId' # nextMeetingId

C27_DeleteStep == Len(toasts') > Len(toasts)

C27_ResetStep ==
    Idle /\ friends' = << >> /\ meetings' = << >> /\ toasts' = toasts

C27_ImportStep == currentModal = "import-confirm" /\ currentModal' = "none"

\* C27: meetings are append-only: a log action appends exactly one new Meeting
\* and leaves the others as they were; a delete removes exactly the meetings
\* of the deleted friend; on every other step but a reset or a confirmed
\* import every Meeting stays in the list, in place and with every field
\* unchanged
C27_AppendOnly ==
    [][/\ C27_LogStep =>
             /\ Len(meetings') = Len(meetings) + 1
             /\ SubSeq(meetings', 1, Len(meetings)) = meetings
             /\ \A i \in 1..Len(meetings) :
                    meetings[i].id # meetings'[Len(meetings')].id
       /\ C27_DeleteStep =>
             \E f \in Range(friends) :
                /\ \A g \in Range(friends') : g.id # f.id
                /\ meetings' = SelectSeq(meetings, LAMBDA m : m.friendId # f.id)
       /\ C27_ImportStep =>
             \/ meetings' = meetings
             \/ meetings' = Map(importData.fields.meetings.items, AsMeeting)
       /\ ~(C27_DeleteStep \/ C27_ResetStep \/ C27_ImportStep) =>
             /\ Len(meetings') >= Len(meetings)
             /\ SubSeq(meetings', 1, Len(meetings)) = meetings]_vars

\* C27 witness: the imported friend was deleted with their meeting while the
\* meeting logged for the other friend stayed
C27_Witness ==
    /\ Len(meetings) = 1
    /\ meetings[1].friendId = 1
    /\ Len(toasts) = 1
    /\ Len(toasts[1].deletedMeetings) = 1
    /\ toasts[1].deletedMeetings[1].id = 200

\* Number.isInteger(x) && x >= 1, for the cadences of the model
C28_PositiveInteger(x) == ToString(x) \in {ToString(k) : k \in MIN_CADENCE..MAX_CADENCE}

\* C28: in every snapshot, also after a confirmed import and after an edit,
\* every friend's cadenceDays is an integer >= 1
C28_CadenceAtLeastOne ==
    \A i \in 1..Len(friends) : C28_PositiveInteger(friends[i].cadenceDays)

\* The causes of a rejection
C29_Oversized(file) == file.size > 5 * 1024 * 1024

C29_Unparseable(file) == file.data = JSyntaxError

C29_WrongShape(file) ==
    \/ file.data.t # "object"
    \/ \E k \in {"friends", "meetings"} :
          k \notin DOMAIN file.data.fields \/ file.data.fields[k].t # "array"
    \/ "settings" \notin DOMAIN file.data.fields
    \/ Falsy(file.data.fields.settings)

C29_InvalidFields(file) == ~ValidFriends(file.data) \/ ~ValidMeetings(file.data)

\* C29: the rejection reasons are distinct per cause and tested in a fixed
\* order: picking a file reports 'File too large (5MB max)' if it is
\* oversized, whatever it holds; else 'Could not read file' if and only if
\* its text does not parse; else 'Invalid file format' if its top-level shape
\* is wrong (JSON null included); else 'Corrupted data in file' if a friend or
\* meeting has an invalid field; else it rejects nothing and offers the
\* candidate for confirmation
C29_ReasonPerCause ==
    [][\A file \in ReasonFiles :
          handleImportFile(file) =>
             IF C29_Oversized(file)
             THEN errorToast' = "File too large (5MB max)" /\ importData' = NoImport
             ELSE IF C29_Unparseable(file)
             THEN errorToast' = "Could not read file" /\ importData' = NoImport
             ELSE IF C29_WrongShape(file)
             THEN errorToast' = "Invalid file format" /\ importData' = NoImport
             ELSE IF C29_InvalidFields(file)
             THEN errorToast' = "Corrupted data in file" /\ importData' = NoImport
             ELSE importData' = file.data /\ errorToast' = errorToast]_vars

\* C29 witness: the file picked last was rejected for its shape
C29_Witness ==
    /\ errorToast = "Invalid file format"
    /\ importData = NoImport
    /\ currentModal = "none"
    /\ Onboarded

\* The friend has been met and the cadence has not run out
C30_OnCadence(f) ==
    /\ f.lastMeetingDate # Null
    /\ (now - f.lastMeetingDate) \div MS_PER_DAY <= f.cadenceDays

\* C30: when two log actions for the same on-cadence friend are handled
\* before the component re-renders, the two new Meetings are in the list,
\* totalMeetings is old + 2 and streakCount is old + 2
C30_BothLogsCounted ==
    [][\A i \in 1..Len(friends) :
          (/\ nextMeetingId' = nextMeetingId + 2
           /\ meetings'[Len(meetings')].friendId = friends[i].id
           /\ C30_OnCadence(friends[i]))
          => /\ Len(meetings') = Len(meetings) + 2
             /\ friends'[i].totalMeetings = friends[i].totalMeetings + 2
             /\ friends'[i].streakCount = friends[i].streakCount + 2]_vars

\* The ids of the friends, in list order
C31_Ids(fs) == [i \in 1..Len(fs) |-> fs[i].id]

\* The steps that replace the snapshot
C31_Replacing ==
    \/ Idle /\ friends' = << >> /\ meetings' = << >> /\ toasts' = toasts
    \/ currentModal = "import-confirm" /\ currentModal' = "none"

\* The steps that add a friend, log a meeting or delete a friend
C31_Fresh ==
    \/ nextFriendId' # nextFriendId
    \/ nextMeetingId' # nextMeetingId
    \/ Len(toasts') > Len(toasts)

\* C31: after a reset or a confirmed import, and until the next add, log or
\* delete, no step puts a friend or a meeting back: a pending Undo of an
\* earlier delete leaves the list of friend ids and the list of meetings as
\* the reset or the import made them
C31_UndoDoesNotLeak ==
    [][replaced /\ ~C31_Replacing /\ ~C31_Fresh =>
          /\ C31_Ids(friends') = C31_Ids(friends)
          /\ meetings' = meetings]_vars

\* C32: from the empty snapshot, after any sequence of add, edit, log, delete,
\* undo and reset actions, every friend's totalMeetings is the number of
\* Meetings of the snapshot whose friendId is the friend's id
C32_CounterMatchesLog ==
    \A i \in 1..Len(friends) :
        friends[i].totalMeetings =
            Cardinality({k \in 1..Len(meetings) : meetings[k].friendId = friends[i].id})

\* C32 witness: a friend logged twice was deleted and put back by Undo behind
\* a friend never logged
C32_Witness ==
    /\ Len(friends) = 2
    /\ friends[1].id > friends[2].id
    /\ friends[1].totalMeetings = 0
    /\ friends[2].totalMeetings = 2
    /\ Len(meetings) = 2

\* C33: from the empty snapshot, after any sequence of add, edit, log, delete,
\* undo and reset actions, every Meeting's friendId is the id of a friend of
\* the snapshot, no two friends share an id and no two meetings share an id
C33_ReferentialIntegrity ==
    /\ \A k \in 1..Len(meetings) :
          \E i \in 1..Len(friends) : friends[i].id = meetings[k].friendId
    /\ \A i, j \in 1..Len(friends) : friends[i].id = friends[j].id => i = j
    /\ \A k, l \in 1..Len(meetings) : meetings[k].id = meetings[l].id => k = l

\* C33 witness: a friend logged once was deleted and put back by Undo behind
\* a friend added and logged in the meantime
C33_Witness ==
    /\ Len(friends) = 2
    /\ friends[1].id > friends[2].id
    /\ Len(meetings) = 2
    /\ meetings[1].friendId = friends[1].id
    /\ meetings[2].friendId = friends[2].id
    /\ meetings[1].id > meetings[2].id

\* C34: from the empty snapshot, after any sequence of add, edit, log, delete
\* and undo actions, every friend has lastMeetingDate absent exactly when
\* totalMeetings = 0 and exactly when streakCount = 0, and a friend with
\* totalMeetings >= 1 has 1 <= streakCount <= totalMeetings; so no log leaves
\* a streak of 0
C34_StreakHistoryConsistent ==
    \A i \in 1..Len(friends) :
        /\ (friends[i].lastMeetingDate = Null) <=> (friends[i].totalMeetings = 0)
        /\ (friends[i].totalMeetings = 0) <=> (friends[i].streakCount = 0)
        /\ friends[i].totalMeetings >= 1 =>
              /\ 1 <= friends[i].streakCount
              /\ friends[i].streakCount <= friends[i].totalMeetings

\* C34 witness: a friend logged twice, the second time late: its streak is 1
\* of 2 meetings
C34_Witness ==
    /\ Len(friends) = 1
    /\ friends[1].totalMeetings = 2
    /\ friends[1].streakCount = 1
    /\ Len(meetings) = 2
    /\ meetings[1].timestamp < meetings[2].timestamp

\* The timestamps of the meetings of friend fid
C35_Timestamps(fid) ==
    {meetings[k].timestamp : k \in {j \in 1..Len(meetings) : meetings[j].friendId = fid}}

\* C35: with a clock that never runs backwards, from the empty snapshot, after
\* any sequence of add, edit, log, delete and undo actions, every friend's
\* lastMeetingDate is the largest timestamp among its Meetings, absent when it
\* has none, and its updatedAt is not earlier than its lastMeetingDate
C35_LastMeetingIsLatest ==
    \A i \in 1..Len(friends) :
        /\ IF C35_Timestamps(friends[i].id) = {}
           THEN friends[i].lastMeetingDate = Null
           ELSE /\ friends[i].lastMeetingDate \in C35_Timestamps(friends[i].id)
                /\ \A t \in C35_Timestamps(friends[i].id) :
                      t <= friends[i].lastMeetingDate
        /\ friends[i].lastMeetingDate # Null =>
              friends[i].updatedAt >= friends[i].lastMeetingDate

\* C35 witness: a friend logged on two different days and edited on a later
\* one
C35_Witness ==
    /\ Len(friends) = 1
    /\ Len(meetings) = 2
    /\ meetings[1].timestamp < meetings[2].timestamp
    /\ friends[1].lastMeetingDate = meetings[2].timestamp
    /\ friends[1].updatedAt > friends[1].lastMeetingDate

\* The fields of a friend that an edit must leave alone
C36_Kept(f) ==
    <<f.id, f.streakCount, f.multiplier, f.totalMeetings, f.lastMeetingDate,
      f.isArchived, f.createdAt>>

\* C36: handleEditFriend changes only name, relationshipTier, cadenceDays and
\* updatedAt of the selected friend: its id, streakCount, multiplier,
\* totalMeetings, lastMeetingDate, isArchived and createdAt, every other
\* friend, the meetings and the settings are as before, also when 10 active
\* friends exist
C36_EditFrame ==
    [][\A fid \in EditTargets :
          handleEditFriend(fid, <<"B">>, "casual", 2) =>
            /\ Len(friends') = Len(friends)
            /\ \A i \in 1..Len(friends) :
                  IF friends[i].id = fid
                  THEN /\ C36_Kept(friends'[i]) = C36_Kept(friends[i])
                       /\ DOMAIN friends'[i] = DOMAIN friends[i]
                  ELSE friends'[i] = friends[i]
            /\ meetings' = meetings
            /\ settings' = settings]_vars

\* C36 witness: with 10 active friends, the tenth was edited after it was
\* logged and keeps its streak and its meeting
C36_Witness ==
    /\ ActiveFriendCount(friends) = FRIEND_LIMIT
    /\ friends[FRIEND_LIMIT].name = <<"B">>
    /\ friends[FRIEND_LIMIT].cadenceDays = 2
    /\ friends[FRIEND_LIMIT].streakCount = 1
    /\ friends[FRIEND_LIMIT].updatedAt > friends[FRIEND_LIMIT].lastMeetingDate
    /\ Len(meetings) = 1

\* C37: in v4.4.0, taking up the toast's 'Add note' after a quick log and
\* saving the note creates no second Meeting and no second streak transition:
\* the note is attached to the Meeting of the quick log, and the friend's
\* totalMeetings and streakCount stay as the quick log left them
C37_NoteOnTheSameMeeting ==
    [][\A i \in 1..Len(toasts) :
          AddNoteThenSave(NoteMeetingIds, i, <<"o", "k">>) =>
            /\ Len(meetings') = Len(meetings)
            /\ \E k \in 1..Len(meetings) :
                  /\ meetings[k].friendId = toasts[i].friendId
                  /\ NoteOf(meetings'[k]) = <<"o", "k">>
            /\ \A j \in 1..Len(friends) :
                  /\ friends'[j].totalMeetings = friends[j].totalMeetings
                  /\ friends'[j].streakCount = friends[j].streakCount]_vars

\* C38: once settings.hasCompletedOnboarding is true, no add, edit, log,
\* delete, undo, theme change, reset or confirmed import of an accepted
\* candidate makes it false again
C38_OnboardingMonotonic ==
    [][Onboarded => "hasCompletedOnboarding" \in DOMAIN settings' /\ Onboarded']_vars

\* C38 witness: the settings of a confirmed backup, which say that the
\* onboarding was not completed, are the live settings, the flag set
C38_Witness ==
    /\ "theme" \in DOMAIN settings
    /\ settings.theme = "dark"
    /\ Onboarded
    /\ Len(friends) = 1
    /\ friends[1].id = 100
    /\ importData = NoImport

\* The list with a meeting of nobody in front and a meeting of another friend
\* behind
C39_WithForeign(f, ms) ==
    <<NewMeeting(0, 0, T0, << >>)>> \o ms
        \o <<NewMeeting(0, f.id + 1, now + 9 * MS_PER_DAY, << >>)>>

\* The timestamp of the oldest of f's ten most recent meetings
C39_Cutoff(f) ==
    IF Cardinality(C22_Own(f)) > 10
    THEN C22_Kth(f, Cardinality(C22_Own(f)) - 9)
    ELSE 0

\* The list without the meetings of f older than its ten most recent, and
\* the list with those meetings moved to the instant 0
C39_WithoutOlder(f, ms) ==
    LET cutoff == C39_Cutoff(f)
    IN Filter(ms, LAMBDA m : m.friendId # f.id \/ m.timestamp >= cutoff)

C39_WithOlderMoved(f, ms) ==
    LET cutoff == C39_Cutoff(f)
    IN Map(ms, LAMBDA m :
           IF m.friendId # f.id \/ m.timestamp >= cutoff THEN m
           ELSE [m EXCEPT !.timestamp = 0])

\* C39: the score of a friend f depends only on f and on the ten most recent
\* meetings with friendId = f.id: it is the same when meetings of another
\* friend and of nobody are added, and when the meetings of f older than its
\* ten most recent are removed or changed
C39_ScoreNonInterference ==
    \A i \in 1..Len(friends) :
        LET score == calculateHealthScore(friends[i], meetings)
        IN /\ calculateHealthScore(friends[i],
                   C39_WithForeign(friends[i], meetings)) = score
           /\ calculateHealthScore(friends[i],
                   C39_WithoutOlder(friends[i], meetings)) = score
           /\ calculateHealthScore(friends[i],
                   C39_WithOlderMoved(friends[i], meetings)) = score

\* C39 witness: a friend with more than ten meetings at uneven gaps, some of
\* them older than the ten most recent, logged once more in this session,
\* whose score is not the neutral 50
C39_Witness ==
    \E i \in 1..Len(friends) :
        /\ nextMeetingId > HealthMeetings + 1
        /\ friends[i].totalMeetings >= 2
        /\ C39_WithoutOlder(friends[i], meetings) # meetings
        /\ C39_WithOlderMoved(friends[i], meetings) # meetings
        /\ \E w \in {C22_Window(friends[i])} : C22_Gap(w, 1) # C22_Gap(w, 2)
        /\ calculateHealthScore(friends[i], meetings) \notin {50, 0}

====
